---------------------------- MODULE Spec2Model ----------------------------
(***************************************************************************)
(* A model of PlayerPitchControlAnalysisPlayer                             *)
(* (src/PlayerPitchControlAnalysis.py): one analysis context, built from a *)
(* pair of tracking tables, an event and a subject player, and the         *)
(* operations a caller can run on it.  Every action is one public method,  *)
(* run to completion, exceptions included.                                 *)
(*                                                                         *)
(* Numbers are integers.  The pitch is scaled down (PitchLength x          *)
(* PitchWidth metres, GridCellsX cells along x) so that whole surfaces fit *)
(* in a state; an aggregated area, a float in the code, is kept as an      *)
(* exact fraction [num, den].                                              *)
(***************************************************************************)
EXTENDS Integers, Sequences, FiniteSets, TLC

\* ------------------------------------------------------------------------
\* Bounds of the model
\* ------------------------------------------------------------------------

\* length of the pitch the surface generator assumes by default (106.0 m)
PitchLength == 6

\* width of the pitch the surface generator assumes by default (68.0 m)
PitchWidth == 4

\* cells along x the surface generator uses by default (50)
GridCellsX == 3

\* replacement velocities passed by callers range over 0..MaxVel
MaxVel == 1

\* ------------------------------------------------------------------------
\* Values
\* ------------------------------------------------------------------------

\* np.nan: the value of every field of a player that is not on the pitch
NaN == -999

isnan(v) == v = NaN

\* float addition: NaN is absorbing
AddF(a, b) == IF isnan(a) \/ isnan(b) THEN NaN ELSE a + b

\* one player's four columns <team>_<id>_x, _y, _vx, _vy at one frame
P(px, py, pvx, pvy) == [x |-> px, y |-> py, vx |-> pvx, vy |-> pvy]

Absent == P(NaN, NaN, NaN, NaN)

Teams == {"Home", "Away"}

\* the player columns of each tracking table, in column order
HomeColumns == <<"1", "2", "3">>
AwayColumns == <<"4", "5", "6">>

Range(s) == {s[i] : i \in DOMAIN s}

HomeIds == Range(HomeColumns)
AwayIds == Range(AwayColumns)

Frames == {1, 2}

\* the events table: index -> Start Frame and Team (the team in possession)
Events ==
  <<[StartFrame |-> 1, Team |-> "Home"],
    [StartFrame |-> 1, Team |-> "Away"],
    [StartFrame |-> 2, Team |-> "Home"],
    [StartFrame |-> 2, Team |-> "Away"]>>

\* the players' rows at each frame when everybody is on the pitch
FullHome ==
  [f \in Frames |->
     IF f = 1
     THEN [p \in HomeIds |->
             CASE p = "1" -> P(1, 0, -1, 0)
               [] p = "2" -> P(2, 1, 0, 0)
               [] OTHER   -> P(0, -1, 1, 1)]
     ELSE [p \in HomeIds |->
             CASE p = "1" -> P(-2, 1, 0, 1)
               [] p = "2" -> P(0, 0, 1, 0)
               [] OTHER   -> P(2, -1, 0, 0)]]

FullAway ==
  [f \in Frames |->
     IF f = 1
     THEN [p \in AwayIds |->
             CASE p = "4" -> P(-1, 0, 1, 0)
               [] p = "5" -> P(-2, -1, 0, 0)
               [] OTHER   -> P(1, 1, 0, -1)]
     ELSE [p \in AwayIds |->
             CASE p = "4" -> P(2, 0, 0, 0)
               [] p = "5" -> P(-1, 1, -1, 0)
               [] OTHER   -> P(0, -1, 0, 1)]]

\* who is missing from the pitch at the event frame
OffPatterns == {{}, {"1", "4"}, {"2", "3"}, {"5", "6"}}

\* a tracking table: the full rows, with the players of `off` absent at frame f
Tracking(full, f, off) ==
  [g \in Frames |->
     [p \in DOMAIN full[g] |->
        IF g = f /\ p \in off THEN Absent ELSE full[g][p]]]

\* player_to_analyze as passed by the caller: its Python type and str() of it
Player(type, str) == [type |-> type, str |-> str]

\* the subjects a context is built for: team_player_to_analyze and
\* player_to_analyze.  The first four name a player of the team; the others
\* name a player of the other team, an id in no table, a float, a third team
SubjectArgs ==
  {<<"Home", Player("int", "1")>>,
   <<"Home", Player("str", "2")>>,
   <<"Away", Player("int", "4")>>,
   <<"Away", Player("str", "5")>>,
   <<"Home", Player("int", "4")>>,
   <<"Away", Player("str", "9")>>,
   <<"Home", Player("float", "1.0")>>,
   <<"Neither", Player("int", "1")>>}

\* field_dimens and n_grid_cells_x as passed to the constructor: the generator's
\* defaults, a narrower pitch, a coarser grid, a finer grid
GridArgs ==
  {<<PitchLength, PitchWidth, GridCellsX>>,
   <<PitchLength, PitchWidth \div 2, GridCellsX>>,
   <<PitchLength, PitchWidth, GridCellsX - 1>>,
   <<PitchLength, PitchWidth, GridCellsX + 1>>}


\* ------------------------------------------------------------------------
\* The surface generator (Metrica_PitchControl, an external collaborator)
\* ------------------------------------------------------------------------

\* np.linspace(-extent/2, extent/2, n), kept as its end points (doubled) and length
Linspace(extent, n) == [start2 |-> -extent, stop2 |-> extent, num |-> n]

\* len(xgrid)
Len_(grid) == grid.num

\* the k-th point of a grid times GridScale(grid), an integer
GridScale(grid) == IF grid.num <= 1 THEN 2 ELSE 2 * (grid.num - 1)
GridPoint(grid, k) ==
  IF grid.num <= 1 THEN grid.start2
  ELSE grid.start2 * (grid.num - 1) + (grid.stop2 - grid.start2) * (k - 1)

\* a surface: its numpy shape (rows along y, columns along x) and its cells
Cells(ny, nx) == (1..ny) \X (1..nx)
Surface(ny, nx, values) == [shape |-> <<ny, nx>>, cells |-> values]

\* a player takes part in the surface when their position is known; an
\* unknown velocity counts as standing still
InFrame(r) == ~isnan(r.x) /\ ~isnan(r.y)
VelOrZero(v) == IF isnan(v) THEN 0 ELSE v

\* how far (squared, on a common integer scale) player row r, moving on for
\* one time unit, ends from the cell at column j of xs and row i of ys
Reach(r, xs, ys, i, j) ==
  LET sx == GridScale(xs)
      sy == GridScale(ys)
      ex == (r.x + VelOrZero(r.vx)) * sx - GridPoint(xs, j)
      ey == (r.y + VelOrZero(r.vy)) * sy - GridPoint(ys, i)
  IN  ex * ex * sy * sy + ey * ey * sx * sx

\* the control of one cell by the team in possession: 1 when one of its players
\* in frame reaches the cell no later than every opponent in frame, else 0
CellControl(att, def, xs, ys, i, j) ==
  LET a == {p \in DOMAIN att : InFrame(att[p])}
      d == {p \in DOMAIN def : InFrame(def[p])}
  IN  IF a = {} THEN 0
      ELSE IF \E p \in a : \A q \in d :
                Reach(att[p], xs, ys, i, j) <= Reach(def[q], xs, ys, i, j)
           THEN 1 ELSE 0

\* mpc.generate_pitch_control_for_event(event_id, events, tracking_home,
\* tracking_away, params, field_dimen, n_grid_cells_x): the surface of the team
\* in possession at the event's start frame, with its xgrid and ygrid
generate_pitch_control_for_event(ev, home, away, field_dimen, n_grid_cells_x) ==
  LET n_grid_cells_y == (n_grid_cells_x * field_dimen[2]) \div field_dimen[1]
      xs == Linspace(field_dimen[1], n_grid_cells_x)
      ys == Linspace(field_dimen[2], n_grid_cells_y)
      f == Events[ev].StartFrame
      att == IF Events[ev].Team = "Home" THEN home[f] ELSE away[f]
      def == IF Events[ev].Team = "Home" THEN away[f] ELSE home[f]
      PPCFa == [c \in Cells(n_grid_cells_y, n_grid_cells_x) |->
                  CellControl(att, def, xs, ys, c[1], c[2])]
  IN  [surface |-> Surface(n_grid_cells_y, n_grid_cells_x, PPCFa),
       xgrid |-> xs, ygrid |-> ys]

\* the generator's own defaults for field_dimen and n_grid_cells_x
DefaultFieldDimen == <<PitchLength, PitchWidth>>
DefaultGridCellsX == GridCellsX

\* ------------------------------------------------------------------------
\* The analysis context
\* ------------------------------------------------------------------------

VARIABLES
  tracking_home,            \* self.tracking_home: frame -> player -> row
  tracking_away,            \* self.tracking_away
  event_id,                 \* self.event_id
  team_player_to_analyze,   \* self.team_player_to_analyze
  player_to_analyze,        \* self.player_to_analyze
  field_dimens,             \* self.field_dimens
  n_grid_cells_x,           \* self.n_grid_cells_x
  tracking_frame,           \* self.tracking_frame
  team_in_possession,       \* self.team_in_possession
  event_pitch_control,      \* self.event_pitch_control, the baseline surface
  xgrid,                    \* self.xgrid
  ygrid,                    \* self.ygrid
  call,                     \* the last method called, with its arguments
  outcome,                  \* what that call returned or raised
  temp_tracking_home,       \* the last edited copy handed to the generator
  temp_tracking_away,
  copied,                   \* whether the last call made edited copies
  gen_calls,                \* calls of the surface generator made by the last call
  warned,                   \* whether the last call issued a warning
  search,                   \* what the last call searched, when it was the optimizer
  pc                        \* the caller: "ready" to call, or holding what a call "returned"

context == <<tracking_home, tracking_away, event_id, team_player_to_analyze,
             player_to_analyze, field_dimens, n_grid_cells_x, tracking_frame,
             team_in_possession, event_pitch_control, xgrid, ygrid>>

vars == <<tracking_home, tracking_away, event_id, team_player_to_analyze,
          player_to_analyze, field_dimens, n_grid_cells_x, tracking_frame,
          team_in_possession, event_pitch_control, xgrid, ygrid,
          call, outcome, temp_tracking_home, temp_tracking_away, copied,
          gen_calls, warned, search, pc>>

\* an exact fraction num/den standing for a float
Rat(n, d) == [num |-> n, den |-> d]
RatEq(a, b) == a.num * b.den = b.num * a.den
RatNeg(a) == Rat(-a.num, a.den)
RatTimes(a, k) == Rat(a.num * k, a.den)
RatSub(a, b) == Rat(a.num * b.den - b.num * a.den, a.den * b.den)

NoSurface == Surface(0, 0, [c \in Cells(0, 0) |-> 0])
NoGrid == Linspace(0, 0)

\* the arguments of a call, every method's keywords at their defaults
DefaultArgs ==
  [replace_velocity |-> FALSE, replace_x_velocity |-> 0, replace_y_velocity |-> 0,
   relative_x_change |-> 0, relative_y_change |-> 0,
   replace_function |-> "movement", calculating_diff |-> FALSE,
   pitch_control_result |-> NoSurface]

Call(op, args) == [op |-> op, args |-> args]

\* what a method returns ("ok") or the exception it raises
Returned(surface, xs, ys, value) ==
  [status |-> "ok", surface |-> surface, xgrid |-> xs, ygrid |-> ys, value |-> value]
Raised(error) ==
  [status |-> error, surface |-> NoSurface, xgrid |-> NoGrid, ygrid |-> NoGrid,
   value |-> Rat(0, 1)]

ErrPlayerType == "ValueError: player_to_analyze must be an integer or a string"
ErrTeam == "ValueError: team_player_to_analyze must equal 'Home' or 'Away'"
ErrNotOnPitch == "ValueError: player_to_analyze is either not on the correct team, or was not on the pitch at the time of the event"
ErrReplaceFunction == "ValueError: replace_function must be either 'movement', 'presence' or 'location'"
ErrBroadcast == "ValueError: operands could not be broadcast together"

ValidationErrors == {ErrPlayerType, ErrTeam, ErrNotOnPitch}

\* _get_players_on_pitch(team): the ids, in column order, whose vx is known at
\* the event's start frame; any team other than "Home" reads the away table
get_players_on_pitch(team) ==
  LET pass_frame == Events[event_id].StartFrame
      data_row == IF team = "Home" THEN tracking_home[pass_frame]
                  ELSE tracking_away[pass_frame]
      columns == IF team = "Home" THEN HomeColumns ELSE AwayColumns
      on(p) == ~isnan(data_row[p].vx)
  IN  SelectSeq(columns, on)

\* _validate_inputs(): "ok", or the ValueError it raises
validate_inputs ==
  IF player_to_analyze.type \notin {"str", "int"} THEN ErrPlayerType
  ELSE IF team_player_to_analyze \notin {"Home", "Away"} THEN ErrTeam
  ELSE IF player_to_analyze.str \notin Range(get_players_on_pitch(team_player_to_analyze))
       THEN ErrNotOnPitch
  ELSE "ok"

\* The tables a perturbation method works on, by reference: the context's own
\* two tables and the two a call allocates with DataFrame.copy(), which start
\* with the values of the tables they are copies of
Heap ==
  [home |-> tracking_home, away |-> tracking_away,
   temp_home |-> tracking_home, temp_away |-> tracking_away]

\* copy() left out: the edits go to the table itself
copy_alias(df, fresh) == df

\* df.copy(): the reference of the fresh table, not of the table copied
copy(df, fresh) == fresh

\* df[<team>_<player>_<field>] = value: the whole column, every frame
at_whole_column(h, df, frame, player, field, value) ==
  [h EXCEPT ![df] = [g \in DOMAIN h[df] |-> [h[df][g] EXCEPT ![player][field] = value]]]

\* df.at[frame, <team>_<player>_<field>] = value, on the table df refers to
at(h, df, frame, player, field, value) ==
  [h EXCEPT ![df][frame][player][field] = value]

\* df.at[frame, <team>_<player>_<field>] += change
at_add(h, df, frame, player, field, change) ==
  at(h, df, frame, player, field, AddF(h[df][frame][player][field], change))

\* the result of a perturbation method: what it returns or raises, the edited
\* copies it made, and the context's own tables as the call leaves them
Effect(out, self_home, self_away, temp_home, temp_away, made, gen, warn) ==
  [outcome |-> out, self_home |-> self_home, self_away |-> self_away,
   temp_home |-> temp_home, temp_away |-> temp_away, copied |-> made,
   gen |-> gen, warned |-> warn]

\* a call that raises before it copies anything
Failed(error) ==
  Effect(Raised(error), tracking_home, tracking_away,
         tracking_home, tracking_away, FALSE, 0, FALSE)

\* the generator run on the tables temp_home and temp_away refer to, with the
\* context's field_dimens and n_grid_cells_x, as every perturbation ends
Generated(h, temp_home, temp_away, warn) ==
  LET g == generate_pitch_control_for_event(event_id, h[temp_home], h[temp_away],
                                            field_dimens, n_grid_cells_x)
  IN  Effect(Returned(g.surface, g.xgrid, g.ygrid, Rat(0, 1)),
             h.home, h.away, h[temp_home], h[temp_away], TRUE, 1, warn)

\* str(self.player_to_analyze), which names the subject's columns
column == player_to_analyze.str

\* the two replacement values stored in each other's column
set_velocity_swapped(h, df, replace_x_velocity, replace_y_velocity) ==
  at(at(h, df, tracking_frame, column, "vx", replace_y_velocity),
     df, tracking_frame, column, "vy", replace_x_velocity)

\* lines 157-162 (Home) and 164-169 (Away): the subject's _vx and _vy at the
\* event frame are set in the copy df
set_velocity(h, df, replace_x_velocity, replace_y_velocity) ==
  at(at(h, df, tracking_frame, column, "vx", replace_x_velocity),
     df, tracking_frame, column, "vy", replace_y_velocity)

\* calculate_pitch_control_replaced_velocity(replace_x_velocity, replace_y_velocity)
calculate_pitch_control_replaced_velocity(replace_x_velocity, replace_y_velocity) ==
  IF validate_inputs # "ok" THEN Failed(validate_inputs)
  ELSE
    LET temp_home == copy("home", "temp_home")
        temp_away == copy("away", "temp_away")
        h == IF team_player_to_analyze = "Home"
             THEN set_velocity(Heap, temp_home, replace_x_velocity, replace_y_velocity)
             ELSE IF team_player_to_analyze = "Away"
             THEN set_velocity(Heap, temp_away, replace_x_velocity, replace_y_velocity)
             ELSE Heap
    IN  Generated(h, temp_home, temp_away, FALSE)

\* only the position is set to np.nan
set_absent_position_only(h, df) ==
  at(at(h, df, tracking_frame, column, "x", NaN),
     df, tracking_frame, column, "y", NaN)

\* lines 204-215 (Home) and 217-228 (Away): the subject's _x, _y, _vx and _vy
\* at the event frame are set to np.nan in the copy df
set_absent(h, df) ==
  at(at(at(at(h, df, tracking_frame, column, "x", NaN),
           df, tracking_frame, column, "y", NaN),
        df, tracking_frame, column, "vx", NaN),
     df, tracking_frame, column, "vy", NaN)

\* calculate_pitch_control_without_player()
calculate_pitch_control_without_player ==
  IF validate_inputs # "ok" THEN Failed(validate_inputs)
  ELSE
    LET temp_home == copy("home", "temp_home")
        temp_away == copy("away", "temp_away")
        h == IF team_player_to_analyze = "Home" THEN set_absent(Heap, temp_home)
             ELSE IF team_player_to_analyze = "Away" THEN set_absent(Heap, temp_away)
             ELSE Heap
    IN  Generated(h, temp_home, temp_away, FALSE)

\* the velocity is set whatever replace_velocity says
set_location_always_replace(h, df, relative_x_change, relative_y_change, replace_velocity, replace_x_velocity, replace_y_velocity) ==
  LET moved == at_add(at_add(h, df, tracking_frame, column, "x", relative_x_change),
                      df, tracking_frame, column, "y", relative_y_change)
  IN  at(at(moved, df, tracking_frame, column, "vx", replace_x_velocity),
         df, tracking_frame, column, "vy", replace_y_velocity)

\* lines 293-305 (Home) and 307-319 (Away): the changes are added to the
\* subject's _x and _y at the event frame in the copy df, and the velocity is
\* set when replace_velocity is true
set_location(h, df, relative_x_change, relative_y_change, replace_velocity, replace_x_velocity, replace_y_velocity) ==
  LET moved == at_add(at_add(h, df, tracking_frame, column, "x", relative_x_change),
                      df, tracking_frame, column, "y", relative_y_change)
  IN  IF replace_velocity
      THEN at(at(moved, df, tracking_frame, column, "vx", replace_x_velocity),
              df, tracking_frame, column, "vy", replace_y_velocity)
      ELSE moved

\* a warning for every velocity of zero, replaced or not
zero_velocity_given(replace_velocity, replace_x_velocity, replace_y_velocity) ==
  replace_x_velocity = 0 /\ replace_y_velocity = 0

\* line 282: replace_velocity & (replace_x_velocity == 0) & (replace_y_velocity == 0),
\* the condition of the warning of lines 283-286
stationary_replacement(replace_velocity, replace_x_velocity, replace_y_velocity) ==
  replace_velocity /\ replace_x_velocity = 0 /\ replace_y_velocity = 0

\* calculate_pitch_control_new_location(relative_x_change, relative_y_change,
\*   replace_velocity, replace_x_velocity, replace_y_velocity)
calculate_pitch_control_new_location(relative_x_change, relative_y_change, replace_velocity, replace_x_velocity, replace_y_velocity) ==
  IF validate_inputs # "ok" THEN Failed(validate_inputs)
  ELSE
    LET warn == stationary_replacement(replace_velocity, replace_x_velocity,
                                       replace_y_velocity)
        temp_home == copy("home", "temp_home")
        temp_away == copy("away", "temp_away")
        h == IF team_player_to_analyze = "Home"
             THEN set_location(Heap, temp_home, relative_x_change, relative_y_change,
                               replace_velocity, replace_x_velocity, replace_y_velocity)
             ELSE IF team_player_to_analyze = "Away"
             THEN set_location(Heap, temp_away, relative_x_change, relative_y_change,
                               replace_velocity, replace_x_velocity, replace_y_velocity)
             ELSE Heap
    IN  Generated(h, temp_home, temp_away, warn)

\* a - b on numpy arrays: the shapes must agree or be 1 along each axis, and an
\* axis of length 1 is repeated (broadcast) along the other array's axis
broadcast_dim(m, n) == IF m = n THEN m ELSE IF m = 1 THEN n ELSE IF n = 1 THEN m ELSE -1
broadcastable(a, b) ==
  /\ broadcast_dim(a.shape[1], b.shape[1]) >= 0
  /\ broadcast_dim(a.shape[2], b.shape[2]) >= 0
cell_of(a, i, j) ==
  a.cells[<<IF a.shape[1] = 1 THEN 1 ELSE i, IF a.shape[2] = 1 THEN 1 ELSE j>>]
subtract(a, b) ==
  LET ny == broadcast_dim(a.shape[1], b.shape[1])
      nx == broadcast_dim(a.shape[2], b.shape[2])
  IN  Surface(ny, nx, [c \in Cells(ny, nx) |->
                         cell_of(a, c[1], c[2]) - cell_of(b, c[1], c[2])])

\* the operands the other way round
pitch_control_difference_swapped(edited_pitch_control) ==
  subtract(edited_pitch_control, event_pitch_control)

\* pitch_control_difference = self.event_pitch_control - edited_pitch_control
pitch_control_difference(edited_pitch_control) ==
  subtract(event_pitch_control, edited_pitch_control)

\* any other replace_function taken for the default, "movement"
edited_pitch_control_lenient(a) ==
  CASE a.replace_function = "presence" ->
         calculate_pitch_control_without_player
    [] a.replace_function = "location" ->
         calculate_pitch_control_new_location(
           a.relative_x_change, a.relative_y_change, a.replace_velocity,
           a.replace_x_velocity, a.replace_y_velocity)
    [] OTHER ->
         calculate_pitch_control_replaced_velocity(
           a.replace_x_velocity, a.replace_y_velocity)

\* "movement" served by the location method, the relative changes applied too
edited_pitch_control_movement_moves(a) ==
  CASE a.replace_function = "movement" ->
         calculate_pitch_control_new_location(
           a.relative_x_change, a.relative_y_change, TRUE,
           a.replace_x_velocity, a.replace_y_velocity)
    [] a.replace_function = "presence" ->
         calculate_pitch_control_without_player
    [] a.replace_function = "location" ->
         calculate_pitch_control_new_location(
           a.relative_x_change, a.relative_y_change, a.replace_velocity,
           a.replace_x_velocity, a.replace_y_velocity)
    [] OTHER -> Failed(ErrReplaceFunction)

\* lines 390-421: the perturbation method replace_function names is called, and
\* any other replace_function is an error
edited_pitch_control(a) ==
  CASE a.replace_function = "movement" ->
         calculate_pitch_control_replaced_velocity(
           a.replace_x_velocity, a.replace_y_velocity)
    [] a.replace_function = "presence" ->
         calculate_pitch_control_without_player
    [] a.replace_function = "location" ->
         calculate_pitch_control_new_location(
           a.relative_x_change, a.relative_y_change, a.replace_velocity,
           a.replace_x_velocity, a.replace_y_velocity)
    [] OTHER -> Failed(ErrReplaceFunction)

\* calculate_pitch_control_difference(replace_velocity, replace_x_velocity,
\*   replace_y_velocity, relative_x_change, relative_y_change, replace_function)
calculate_pitch_control_difference(a) ==
  LET e == edited_pitch_control(a)
  IN  IF e.outcome.status # "ok" THEN e
      ELSE IF ~broadcastable(event_pitch_control, e.outcome.surface)
      THEN [e EXCEPT !.outcome = Raised(ErrBroadcast)]
      ELSE [e EXCEPT !.outcome =
              Returned(pitch_control_difference(e.outcome.surface),
                       e.outcome.xgrid, e.outcome.ygrid, Rat(0, 1))]

\* numpy.ndarray.sum()
RECURSIVE SumCells(_, _)
SumCells(cells, todo) ==
  IF todo = {} THEN 0
  ELSE LET c == CHOOSE c \in todo : TRUE
       IN  cells[c] + SumCells(cells, todo \ {c})
sum(a) == SumCells(a.cells, DOMAIN a.cells)

\* calculating_diff ignored: the complement is taken of a difference too
total_space_complement_of_diff(pitch_control_result, calculating_diff) ==
  LET total_space_attacking ==
        Rat(field_dimens[1] * field_dimens[2] * sum(pitch_control_result),
            Len_(xgrid) * Len_(ygrid))
  IN  IF team_player_to_analyze = team_in_possession
      THEN total_space_attacking
      ELSE RatSub(Rat(field_dimens[1] * field_dimens[2], 1), total_space_attacking)

\* the complement taken whoever is in possession
total_space_always_complement(pitch_control_result, calculating_diff) ==
  LET total_space_attacking ==
        Rat(field_dimens[1] * field_dimens[2] * sum(pitch_control_result),
            Len_(xgrid) * Len_(ygrid))
  IN  RatSub(Rat(field_dimens[1] * field_dimens[2], 1), total_space_attacking)

\* calculate_total_space_on_pitch_team(pitch_control_result, calculating_diff)
calculate_total_space_on_pitch_team(pitch_control_result, calculating_diff) ==
  LET total_space_attacking ==
        Rat(field_dimens[1] * field_dimens[2] * sum(pitch_control_result),
            Len_(xgrid) * Len_(ygrid))
  IN  IF team_player_to_analyze = team_in_possession \/ calculating_diff
      THEN total_space_attacking
      ELSE RatSub(Rat(field_dimens[1] * field_dimens[2], 1), total_space_attacking)

\* the sign taken from the team in possession alone, whatever the subject's team
possession_sign_of_home ==
  2 * (IF team_in_possession = "Home" THEN 1 ELSE 0) - 1

\* 2 * (self.team_in_possession == self.team_player_to_analyze) - 1
possession_sign ==
  2 * (IF team_in_possession = team_player_to_analyze THEN 1 ELSE 0) - 1

\* calculate_space_created(replace_x_velocity, replace_y_velocity,
\*   relative_x_change, relative_y_change, replace_velocity, replace_function)
calculate_space_created(a) ==
  LET e == calculate_pitch_control_difference(a)
      pitch_control_change ==
        calculate_total_space_on_pitch_team(e.outcome.surface, TRUE)
  IN  IF e.outcome.status # "ok" THEN e
      ELSE [e EXCEPT !.outcome =
              Returned(NoSurface, NoGrid, NoGrid,
                       RatTimes(pitch_control_change, possession_sign))]

\* what the plotting method answers once the difference is computed with effect e:
\* the error of the difference, or nothing
plot_outcome(e) ==
  IF e.outcome.status # "ok" THEN e
  ELSE [e EXCEPT !.outcome = Returned(NoSurface, NoGrid, NoGrid, Rat(0, 1))]

\* plot_pitch_control_difference(...): the difference is computed and handed to
\* the visualizer; nothing is returned
plot_pitch_control_difference(a) == plot_outcome(calculate_pitch_control_difference(a))

\* ------------------------------------------------------------------------
\* The offside boundary
\* ------------------------------------------------------------------------

\* a method that returns nothing, or None
None == Rat(0, 0)

ErrIndex == "IndexError: list index out of range"

\* sorted(x_coordinates, reverse=reverse): the least (the greatest when
\* reversed) element first, then the rest sorted
RECURSIVE sorted(_, _)
sorted(xs, reverse) ==
  IF xs = <<>> THEN <<>>
  ELSE LET first == CHOOSE i \in DOMAIN xs :
                      \A j \in DOMAIN xs :
                        IF reverse THEN xs[j] <= xs[i] ELSE xs[i] <= xs[j]
           rest == [k \in 1..(Len(xs) - 1) |-> IF k < first THEN xs[k] ELSE xs[k + 1]]
       IN  <<xs[first]>> \o sorted(rest, reverse)

\* the most extreme element, sorted(...)[0]
most_extreme(xs, reverse) == sorted(xs, reverse)[1]

\* sorted(x_coordinates, reverse=...)[1]: Python counts from 0
second_extreme(xs, reverse) == sorted(xs, reverse)[2]

\* lines 908-912 and 916-920: the x of every player of `team` on the pitch, in
\* column order
x_coordinates(team) ==
  LET players_on_pitch == get_players_on_pitch(team)
      frame == IF team = "Home" THEN tracking_home[tracking_frame]
               ELSE tracking_away[tracking_frame]
  IN  [i \in DOMAIN players_on_pitch |-> frame[players_on_pitch[i]].x]

\* a list too short to have a second element answered with the goal line
determine_offside_position_or_goal_line ==
  IF team_player_to_analyze = "Home"
  THEN Returned(NoSurface, NoGrid, NoGrid,
                IF Len(x_coordinates("Away")) < 2 THEN Rat(-1 * field_dimens[1], 2)
                ELSE Rat(second_extreme(x_coordinates("Away"), FALSE), 1))
  ELSE IF team_player_to_analyze = "Away"
  THEN Returned(NoSurface, NoGrid, NoGrid,
                IF Len(x_coordinates("Home")) < 2 THEN Rat(field_dimens[1], 2)
                ELSE Rat(second_extreme(x_coordinates("Home"), TRUE), 1))
  ELSE Returned(NoSurface, NoGrid, NoGrid, None)

\* _determine_offside_position(): the second lowest x of the Away players for a
\* Home subject, the second highest x of the Home players for an Away subject,
\* an IndexError when there are fewer than two, None for any other team
determine_offside_position ==
  IF team_player_to_analyze = "Home"
  THEN IF Len(x_coordinates("Away")) < 2 THEN Raised(ErrIndex)
       ELSE Returned(NoSurface, NoGrid, NoGrid,
                     Rat(second_extreme(x_coordinates("Away"), FALSE), 1))
  ELSE IF team_player_to_analyze = "Away"
  THEN IF Len(x_coordinates("Home")) < 2 THEN Raised(ErrIndex)
       ELSE Returned(NoSurface, NoGrid, NoGrid,
                     Rat(second_extreme(x_coordinates("Home"), TRUE), 1))
  ELSE Returned(NoSurface, NoGrid, NoGrid, None)

\* ------------------------------------------------------------------------
\* The numbers of the search spaces
\* ------------------------------------------------------------------------

RatLess(a, b) == a.num * b.den < b.num * a.den
RatLeq(a, b) == a.num * b.den <= b.num * a.den

\* a float that is np.nan
RatNaN == Rat(NaN, 1)
RatIsNan(a) == a.num = NaN

\* a tracking value as a float
OfFloat(v) == IF isnan(v) THEN RatNaN ELSE Rat(v, 1)

\* a - b on floats: NaN is absorbing
SubF(a, b) == IF RatIsNan(a) \/ RatIsNan(b) THEN RatNaN ELSE RatSub(a, b)

\* Python's max(a, b) and min(a, b): b when b > a (b < a), else a, and every
\* comparison with NaN is false
py_max(a, b) == IF ~RatIsNan(a) /\ ~RatIsNan(b) /\ RatLess(a, b) THEN b ELSE a
py_min(a, b) == IF ~RatIsNan(a) /\ ~RatIsNan(b) /\ RatLess(b, a) THEN b ELSE a

\* sign * sqrt(square): the bounds of a speed, which need not be rational
Surd(sign, square) == [sign |-> sign, square |-> square]
SurdOf(v) == Surd(IF v < 0 THEN -1 ELSE 1, Rat(v * v, 1))
SurdLeq(a, b) ==
  CASE a.sign < 0 /\ b.sign > 0 -> TRUE
    [] a.sign > 0 /\ b.sign < 0 -> a.square.num = 0 /\ b.square.num = 0
    [] a.sign > 0 /\ b.sign > 0 -> RatLeq(a.square, b.square)
    [] OTHER -> RatLeq(b.square, a.square)

\* an angle of `quarters` quarter turns (pi/2 each) plus `radians`, the latter
\* less than a quarter turn
Angle(quarters, radians) == [quarters |-> quarters, radians |-> radians]
AngleLeq(a, b) ==
  IF a.quarters = b.quarters THEN RatLeq(a.radians, b.radians)
  ELSE a.quarters < b.quarters
AngleLess(a, b) == AngleLeq(a, b) /\ a # b

\* np.sin and np.cos of a whole number of quarter turns
sin(q) == CASE q % 4 = 1 -> 1 [] q % 4 = 3 -> -1 [] OTHER -> 0
cos(q) == CASE q % 4 = 0 -> 1 [] q % 4 = 2 -> -1 [] OTHER -> 0

\* ------------------------------------------------------------------------
\* The optimizer
\* ------------------------------------------------------------------------

ErrNoOptimization == "ValueError: One of location_trials or velocity_trials must be greater than 0"
ErrSizeOfGrid == "ValueError: size_of_grid must be greater than 0"
ErrTeamEither == "ValueError: team_player_to_analyze must be either 'Home' or 'Away'"
ErrLocationTrials == "ValueError: location_trials must be greater than or equal to 0"
ErrVelocityTrials == "ValueError: velocity_trials must be greater than or equal to 0"
ErrKeyColumn == "KeyError: '<team>_<player>_x'"
ErrKeyVelocity == "KeyError: 'velocity'"

\* a candidate of a search: the params dictionary handed to the objective, the
\* angle in quarter turns
Params(x_change, y_change, velocity, angle) ==
  [x_change |-> x_change, y_change |-> y_change, velocity |-> velocity, angle |-> angle]

\* the space itself returned, not its negative
partial_space_creation_positive(params) ==
  LET x_velocity == params.velocity * sin(params.angle)
      y_velocity == params.velocity * cos(params.angle)
      e == calculate_pitch_control_new_location(
             params.x_change, params.y_change, TRUE, x_velocity, y_velocity)
      space_creation == calculate_total_space_on_pitch_team(e.outcome.surface, FALSE)
  IN  IF e.outcome.status # "ok" THEN e
      ELSE [e EXCEPT !.outcome =
              Returned(NoSurface, NoGrid, NoGrid, space_creation)]

\* partial_space_creation(params): the subject is moved by (x_change, y_change)
\* and given the velocity (velocity * sin(angle), velocity * cos(angle)); the
\* result is minus the total space of the subject's team on the edited surface
partial_space_creation(params) ==
  LET x_velocity == params.velocity * sin(params.angle)
      y_velocity == params.velocity * cos(params.angle)
      e == calculate_pitch_control_new_location(
             params.x_change, params.y_change, TRUE, x_velocity, y_velocity)
      space_creation == calculate_total_space_on_pitch_team(e.outcome.surface, FALSE)
  IN  IF e.outcome.status # "ok" THEN e
      ELSE [e EXCEPT !.outcome =
              Returned(NoSurface, NoGrid, NoGrid, RatTimes(space_creation, -1))]

\* hp.uniform(label, low, high)
hp_uniform(label, low, high) == [label |-> label, low |-> low, high |-> high]

\* the points a search may draw for each parameter
XChangeDraws == -2..2
YChangeDraws == {0, 1}
VelocityDraws == -1..1
AngleDraws == {0, 1, 3}

\* the draws of a uniform parameter over floats: the points between its
\* bounds, whichever of the two is the greater; NaN when a bound is NaN
Between(u, points) ==
  IF RatIsNan(u.low) \/ RatIsNan(u.high) THEN {NaN}
  ELSE {n \in points :
          \/ RatLeq(u.low, Rat(n, 1)) /\ RatLeq(Rat(n, 1), u.high)
          \/ RatLeq(u.high, Rat(n, 1)) /\ RatLeq(Rat(n, 1), u.low)}

\* the candidates a search over `space` may draw
Draws(space) ==
  {Params(dx, dy, v, q) :
     dx \in Between(space.x_change, XChangeDraws),
     dy \in Between(space.y_change, YChangeDraws),
     v \in {w \in VelocityDraws : /\ SurdLeq(space.velocity.low, SurdOf(w))
                                  /\ SurdLeq(SurdOf(w), space.velocity.high)},
     q \in {r \in AngleDraws : /\ AngleLeq(space.angle.low, Angle(r, Rat(0, 1)))
                               /\ AngleLess(Angle(r, Rat(0, 1)), space.angle.high)}}

\* what one evaluation of the objective leaves in a trial
Trial(params, e) == [params |-> params, loss |-> e.outcome.value]

\* a dictionary with no key
EmptyDict == [l \in {} |-> 0]

\* the first of the trials with the least loss
argmin(trials) ==
  CHOOSE i \in DOMAIN trials :
    /\ \A j \in DOMAIN trials : ~RatLess(trials[j].loss, trials[i].loss)
    /\ \A j \in 1..(i - 1) : RatLess(trials[i].loss, trials[j].loss)

\* the objective evaluated at each of the points, in turn
RECURSIVE evaluations(_)
evaluations(points) ==
  IF points = <<>> THEN <<>>
  ELSE <<partial_space_creation(Head(points))>> \o evaluations(Tail(points))

\* a search that ran: where it stopped and what it had done
SearchRun(status, trials, result, gen, warn, made, temp_home, temp_away) ==
  [status |-> status, trials |-> trials, result |-> result, gen |-> gen,
   warned |-> warn, copied |-> made, temp_home |-> temp_home, temp_away |-> temp_away]

\* a phase that evaluates nothing
NoRun(status, result) ==
  SearchRun(status, <<>>, result, 0, FALSE, FALSE, tracking_home, tracking_away)

\* what fmin leaves after the evaluations `evals` of the points `points`: an
\* exception of the objective ends the search; otherwise the result is the best
\* point, keyed by the labels of the space
fmin_of(space, points, evals) ==
  LET failed == {i \in DOMAIN evals : evals[i].outcome.status # "ok"}
      last == IF failed = {} THEN Len(evals)
              ELSE CHOOSE i \in failed : \A j \in failed : i <= j
      trials == [i \in 1..(IF failed = {} THEN last ELSE last - 1) |->
                   Trial(points[i], evals[i])]
      labels == {space[k].label : k \in DOMAIN space}
  IN  SearchRun(evals[last].outcome.status,
                trials,
                IF failed # {} THEN EmptyDict
                ELSE [l \in labels |->
                        trials[argmin(trials)].params[
                          CHOOSE k \in DOMAIN space : space[k].label = l]],
                Cardinality({i \in 1..last : evals[i].gen = 1}),
                \E i \in 1..last : evals[i].warned,
                \E i \in 1..last : evals[i].copied,
                evals[last].temp_home,
                evals[last].temp_away)

\* fmin(fn=self.partial_space_creation, space=space, algo=tpe.suggest,
\* max_evals=max_evals, trials=Trials()), drawing `points`: the objective is
\* evaluated at each of the max_evals points in turn
fmin(space, max_evals, points) ==
  CHOOSE run \in {fmin_of(space, points, evals) :
                    evals \in {evaluations(SubSeq(points, 1, max_evals))}} : TRUE

\* the check made when either budget is 0
either_budget_zero(location_trials, velocity_trials) ==
  location_trials = 0 \/ velocity_trials = 0

\* line 764: (location_trials == 0) * (velocity_trials == 0)
no_optimization_requested(location_trials, velocity_trials) ==
  (IF location_trials = 0 THEN 1 ELSE 0) * (IF velocity_trials = 0 THEN 1 ELSE 0) # 0

\* what lines 764-792 leave: the error raised there, or the offside position,
\* the subject's coordinates and the range of x and y open to the subject
Bounds(status, offside_called, offside_position, x, y, min_x, max_x, min_y, max_y) ==
  [status |-> status, offside_called |-> offside_called,
   offside_position |-> offside_position,
   player_x_coordinate |-> x, player_y_coordinate |-> y,
   min_x_coord |-> min_x, max_x_coord |-> max_x,
   min_y_coord |-> min_y, max_y_coord |-> max_y]

NoBounds(error, offside_called, offside_position) ==
  Bounds(error, offside_called, offside_position, RatNaN, RatNaN,
         RatNaN, RatNaN, RatNaN, RatNaN)

\* lines 764-792 of get_optimal_location_on_pitch
search_bounds(size_of_grid, location_trials, velocity_trials) ==
  LET offside == determine_offside_position
      max_y_coord == Rat(field_dimens[2], 2)
      min_y_coord == RatTimes(max_y_coord, -1)
      table == IF team_player_to_analyze = "Home" THEN tracking_home ELSE tracking_away
  IN  IF no_optimization_requested(location_trials, velocity_trials)
      THEN NoBounds(ErrNoOptimization, FALSE, None)
      ELSE IF size_of_grid <= 0 THEN NoBounds(ErrSizeOfGrid, FALSE, None)
      ELSE IF offside.status # "ok" THEN NoBounds(offside.status, TRUE, None)
      ELSE IF team_player_to_analyze \notin {"Home", "Away"}
      THEN NoBounds(ErrTeamEither, TRUE, offside.value)
      ELSE IF column \notin DOMAIN table[tracking_frame]
      THEN NoBounds(ErrKeyColumn, TRUE, offside.value)
      ELSE IF team_player_to_analyze = "Home"
      THEN Bounds("ok", TRUE, offside.value,
                  OfFloat(table[tracking_frame][column].x),
                  OfFloat(table[tracking_frame][column].y),
                  offside.value, Rat(field_dimens[1], 2), min_y_coord, max_y_coord)
      ELSE Bounds("ok", TRUE, offside.value,
                  OfFloat(table[tracking_frame][column].x),
                  OfFloat(table[tracking_frame][column].y),
                  Rat(-1 * field_dimens[1], 2), offside.value, min_y_coord, max_y_coord)

\* the x range taken from the pitch alone, the offside position left out
location_space_without_offside(b, size_of_grid) ==
  [x_change |->
     hp_uniform("x_change",
                py_max(SubF(Rat(-1 * field_dimens[1], 2), b.player_x_coordinate),
                       Rat(-1 * size_of_grid, 2)),
                py_min(SubF(Rat(field_dimens[1], 2), b.player_x_coordinate),
                       Rat(size_of_grid, 2))),
   y_change |->
     hp_uniform("y_change",
                py_max(SubF(b.min_y_coord, b.player_y_coordinate), Rat(-1 * size_of_grid, 2)),
                py_min(SubF(b.max_y_coord, b.player_y_coordinate), Rat(size_of_grid, 2))),
   velocity |-> hp_uniform("x_velocity", Surd(-1, Rat(1, 1000000)), Surd(1, Rat(1, 1000000))),
   angle |-> hp_uniform("y_velocity", Angle(0, Rat(-1, 1000)), Angle(0, Rat(1, 1000)))]

\* lines 795-808: location_space
location_space(b, size_of_grid) ==
  [x_change |->
     hp_uniform("x_change",
                py_max(SubF(b.min_x_coord, b.player_x_coordinate), Rat(-1 * size_of_grid, 2)),
                py_min(SubF(b.max_x_coord, b.player_x_coordinate), Rat(size_of_grid, 2))),
   y_change |->
     hp_uniform("y_change",
                py_max(SubF(b.min_y_coord, b.player_y_coordinate), Rat(-1 * size_of_grid, 2)),
                py_min(SubF(b.max_y_coord, b.player_y_coordinate), Rat(size_of_grid, 2))),
   velocity |-> hp_uniform("x_velocity", Surd(-1, Rat(1, 1000000)), Surd(1, Rat(1, 1000000))),
   angle |-> hp_uniform("y_velocity", Angle(0, Rat(-1, 1000)), Angle(0, Rat(1, 1000)))]

\* the window of the velocity phase around the subject's own location,
\* whatever the location phase found
velocity_space_around_origin(location_optimization, max_velocity) ==
  [x_change |-> hp_uniform("x_change", Rat(-1, 100), Rat(1, 100)),
   y_change |-> hp_uniform("y_change", Rat(-1, 100), Rat(1, 100)),
   velocity |->
     hp_uniform("velocity",
                Surd(-1, Rat(max_velocity * max_velocity, 2)),
                Surd(1, Rat(max_velocity * max_velocity, 2))),
   angle |-> hp_uniform("angle", Angle(0, Rat(0, 1)), Angle(4, Rat(0, 1)))]

\* lines 828-845: velocity_space
velocity_space(location_optimization, max_velocity) ==
  [x_change |->
     hp_uniform("x_change",
                RatSub(Rat(location_optimization.x_change, 1), Rat(1, 100)),
                RatSub(Rat(location_optimization.x_change, 1), Rat(-1, 100))),
   y_change |->
     hp_uniform("y_change",
                RatSub(Rat(location_optimization.y_change, 1), Rat(1, 100)),
                RatSub(Rat(location_optimization.y_change, 1), Rat(-1, 100))),
   velocity |->
     hp_uniform("velocity",
                Surd(-1, Rat(max_velocity * max_velocity, 2)),
                Surd(1, Rat(max_velocity * max_velocity, 2))),
   angle |-> hp_uniform("angle", Angle(0, Rat(0, 1)), Angle(4, Rat(0, 1)))]

\* one phase of the optimizer as it was left: whether a search was started,
\* the space handed to it, its trials and the dictionary the phase ends with
Phase(started, space, trials, result) ==
  [started |-> started, space |-> space, trials |-> trials, result |-> result]

NoSpace ==
  [x_change |-> hp_uniform("none", Rat(0, 1), Rat(0, 1)),
   y_change |-> hp_uniform("none", Rat(0, 1), Rat(0, 1)),
   velocity |-> hp_uniform("none", SurdOf(0), SurdOf(0)),
   angle |-> hp_uniform("none", Angle(0, Rat(0, 1)), Angle(0, Rat(0, 1)))]

NoPhase == Phase(FALSE, NoSpace, <<>>, EmptyDict)

\* what a call of the optimizer did: the bounds it computed, its two phases
\* and the arguments it handed to plot_pitch_control_difference
Search(bounds, location, velocity, plotted, plot_args) ==
  [bounds |-> bounds, location |-> location, velocity |-> velocity,
   plotted |-> plotted, plot_args |-> plot_args]

NoSearch == Search(NoBounds("none", FALSE, None), NoPhase, NoPhase, FALSE, DefaultArgs)

\* a step the method did not reach
Skipped == NoRun("skipped", EmptyDict)

\* a location search that stops after its first evaluation
location_phase_one_trial(space, location_trials, location_points) ==
  IF location_trials > 0 THEN fmin(space, 1, location_points)
  ELSE IF location_trials = 0
  THEN NoRun("ok", [x_change |-> 0, y_change |-> 0, x_velocity |-> 0, y_velocity |-> 0])
  ELSE NoRun(ErrLocationTrials, EmptyDict)

\* lines 794-825: the location phase, a search of location_trials evaluations
\* or, without trials, the subject's own location
location_phase(space, location_trials, location_points) ==
  IF location_trials > 0 THEN fmin(space, location_trials, location_points)
  ELSE IF location_trials = 0
  THEN NoRun("ok", [x_change |-> 0, y_change |-> 0, x_velocity |-> 0, y_velocity |-> 0])
  ELSE NoRun(ErrLocationTrials, EmptyDict)

\* lines 827-861: the velocity phase, a search of velocity_trials evaluations
\* or, without trials, the location phase's result with a velocity of 0
velocity_phase(space, location_optimization, velocity_trials, velocity_points) ==
  IF velocity_trials > 0 THEN fmin(space, velocity_trials, velocity_points)
  ELSE IF velocity_trials = 0
  THEN NoRun("ok", [x_change |-> location_optimization.x_change,
                    y_change |-> location_optimization.y_change,
                    x_velocity |-> 0, y_velocity |-> 0])
  ELSE NoRun(ErrVelocityTrials, EmptyDict)

\* the keyword arguments of lines 864-873
plot_args_of(velocity_optimization) ==
  [DefaultArgs EXCEPT
     !.replace_function = "location",
     !.relative_x_change = velocity_optimization.x_change,
     !.relative_y_change = velocity_optimization.y_change,
     !.replace_x_velocity =
        velocity_optimization.velocity * sin(velocity_optimization.angle),
     !.replace_y_velocity =
        velocity_optimization.velocity * cos(velocity_optimization.angle),
     !.replace_velocity = TRUE]

\* lines 864-895: the optimum is handed to plot_pitch_control_difference, its
\* velocity read from the keys "velocity" and "angle"
plot_optimum(velocity_optimization) ==
  IF "velocity" \notin DOMAIN velocity_optimization
       \/ "angle" \notin DOMAIN velocity_optimization
  THEN Failed(ErrKeyVelocity)
  ELSE plot_pitch_control_difference(plot_args_of(velocity_optimization))

\* the effect of an optimizer call that ends with `out` after the runs r1, r2
\* and the effect `last` of its plot
SearchEffect(out, r1, r2, last) ==
  Effect(out, tracking_home, tracking_away,
         IF last.copied THEN last.temp_home
         ELSE IF r2.copied THEN r2.temp_home ELSE r1.temp_home,
         IF last.copied THEN last.temp_away
         ELSE IF r2.copied THEN r2.temp_away ELSE r1.temp_away,
         r1.copied \/ r2.copied \/ last.copied,
         r1.gen + r2.gen + last.gen,
         r1.warned \/ r2.warned \/ last.warned)

\* get_optimal_location_on_pitch(size_of_grid, location_trials, velocity_trials,
\* max_velocity), from what its steps did: the bounds b of lines 764-792, the
\* location phase lo over the space ls, the velocity phase vo over the space
\* vs, and the plot; the method ends at the first step that raises
get_optimal_location_on_pitch(b, ls, lo, vs, vo, plot) ==
  [effect |->
     SearchEffect(IF b.status # "ok" THEN Raised(b.status)
                  ELSE IF lo.status # "ok" THEN Raised(lo.status)
                  ELSE IF vo.status # "ok" THEN Raised(vo.status)
                  ELSE IF plot.outcome.status # "ok" THEN plot.outcome
                  ELSE Returned(NoSurface, NoGrid, NoGrid, None),
                  lo, vo, plot),
   search |->
     Search(b,
            IF b.status # "ok" THEN NoPhase
            ELSE Phase(ls # NoSpace, ls, lo.trials, lo.result),
            IF b.status # "ok" \/ lo.status # "ok" THEN NoPhase
            ELSE Phase(vs # NoSpace, vs, vo.trials, vo.result),
            /\ b.status = "ok" /\ lo.status = "ok" /\ vo.status = "ok"
            /\ plot.outcome.status # ErrKeyVelocity,
            IF b.status = "ok" /\ lo.status = "ok" /\ vo.status = "ok"
                 /\ plot.outcome.status # ErrKeyVelocity
            THEN plot_args_of(vo.result) ELSE DefaultArgs)]

\* ------------------------------------------------------------------------
\* Construction and the calls a caller makes
\* ------------------------------------------------------------------------

\* __init__(tracking_home, tracking_away, params, events, event_id,
\*   team_player_to_analyze, player_to_analyze, field_dimens, n_grid_cells_x):
\* the fields are stored and the baseline surface is generated, with the
\* generator's own defaults for the pitch and the grid
init(ev, off, subject, grid) ==
    LET home == Tracking(FullHome, Events[ev].StartFrame, off)
        away == Tracking(FullAway, Events[ev].StartFrame, off)
        g == generate_pitch_control_for_event(ev, home, away,
                                              DefaultFieldDimen, DefaultGridCellsX)
    IN  /\ tracking_home = home
        /\ tracking_away = away
        /\ event_id = ev
        /\ team_player_to_analyze = subject[1]
        /\ player_to_analyze = subject[2]
        /\ field_dimens = <<grid[1], grid[2]>>
        /\ n_grid_cells_x = grid[3]
        /\ tracking_frame = Events[ev].StartFrame
        /\ team_in_possession = Events[ev].Team
        /\ event_pitch_control = g.surface
        /\ xgrid = g.xgrid
        /\ ygrid = g.ygrid
        /\ call = Call("__init__", DefaultArgs)
        /\ outcome = Returned(NoSurface, NoGrid, NoGrid, Rat(0, 1))
        /\ temp_tracking_home = home
        /\ temp_tracking_away = away
        /\ copied = FALSE
        /\ gen_calls = 1
        /\ warned = FALSE
        /\ search = NoSearch
        /\ pc = "ready"

\* the contexts a caller builds
Init ==
  \E ev \in DOMAIN Events, off \in OffPatterns, subject \in SubjectArgs, grid \in GridArgs :
    init(ev, off, subject, grid)

\* the values callers pass
XVelocities == 0..MaxVel
YVelocities == {0, 1}
XChanges == {0, 1}
YChanges == {-1, 0}
ReplaceFunctions == {"movement", "presence", "location", "velocity"}

\* a call that keeps what it generated in the context: the surface as
\* self.event_pitch_control, the grids as self.xgrid and self.ygrid
Finished_keeping_result(op, args, e, s) ==
  /\ pc = "ready"
  /\ pc' = "returned"
  /\ call' = Call(op, args)
  /\ outcome' = e.outcome
  /\ tracking_home' = e.self_home
  /\ tracking_away' = e.self_away
  /\ temp_tracking_home' = e.temp_home
  /\ temp_tracking_away' = e.temp_away
  /\ copied' = e.copied
  /\ gen_calls' = e.gen
  /\ warned' = e.warned
  /\ search' = s
  /\ event_pitch_control' = IF e.outcome.surface # NoSurface THEN e.outcome.surface
                            ELSE event_pitch_control
  /\ xgrid' = IF e.outcome.surface # NoSurface THEN e.outcome.xgrid ELSE xgrid
  /\ ygrid' = IF e.outcome.surface # NoSurface THEN e.outcome.ygrid ELSE ygrid
  /\ UNCHANGED <<event_id, team_player_to_analyze, player_to_analyze, field_dimens,
                 n_grid_cells_x, tracking_frame, team_in_possession>>

\* the state after a call with effect e that searched s
Finished(op, args, e, s) ==
  /\ pc = "ready"
  /\ pc' = "returned"
  /\ call' = Call(op, args)
  /\ outcome' = e.outcome
  /\ tracking_home' = e.self_home
  /\ tracking_away' = e.self_away
  /\ temp_tracking_home' = e.temp_home
  /\ temp_tracking_away' = e.temp_away
  /\ copied' = e.copied
  /\ gen_calls' = e.gen
  /\ warned' = e.warned
  /\ search' = s
  /\ UNCHANGED <<event_id, team_player_to_analyze, player_to_analyze, field_dimens,
                 n_grid_cells_x, tracking_frame, team_in_possession,
                 event_pitch_control, xgrid, ygrid>>

\* the state after a call with effect e of a method that searches nothing
Done(op, args, e) == Finished(op, args, e, NoSearch)

ReplacedVelocity ==
  \E vx \in XVelocities, vy \in YVelocities :
    Done("calculate_pitch_control_replaced_velocity",
         [DefaultArgs EXCEPT !.replace_x_velocity = vx, !.replace_y_velocity = vy],
         calculate_pitch_control_replaced_velocity(vx, vy))

WithoutPlayer ==
  Done("calculate_pitch_control_without_player", DefaultArgs,
       calculate_pitch_control_without_player)

\* every combination of the keyword arguments of the location methods
LocationArgs ==
  {[DefaultArgs EXCEPT !.relative_x_change = dx, !.relative_y_change = dy,
                       !.replace_velocity = rv,
                       !.replace_x_velocity = vx, !.replace_y_velocity = vy] :
     dx \in XChanges, dy \in YChanges, rv \in BOOLEAN,
     vx \in XVelocities, vy \in YVelocities}

NewLocation ==
  \E a \in LocationArgs :
    Done("calculate_pitch_control_new_location", a,
         calculate_pitch_control_new_location(
           a.relative_x_change, a.relative_y_change, a.replace_velocity,
           a.replace_x_velocity, a.replace_y_velocity))

DifferenceArgs ==
  {[a EXCEPT !.replace_function = fn] : a \in LocationArgs, fn \in ReplaceFunctions}

Difference ==
  \E a \in DifferenceArgs :
    Done("calculate_pitch_control_difference", a, calculate_pitch_control_difference(a))

SpaceCreated ==
  \E a \in DifferenceArgs :
    Done("calculate_space_created", a, calculate_space_created(a))

\* plot_pitch_control_difference, with the velocity and y keywords at their defaults
PlotArgs ==
  {a \in DifferenceArgs :
     a.replace_x_velocity = 0 /\ a.replace_y_velocity = 0 /\ a.relative_y_change = 0}

PlotDifference ==
  \E a \in PlotArgs :
    Done("plot_pitch_control_difference", a, plot_pitch_control_difference(a))

\* calculate_total_space_on_pitch_team on the baseline surface, or on the
\* surface the caller holds from the call that just returned
TotalSpace ==
  \E calculating_diff \in BOOLEAN :
    LET surface == IF pc = "ready" THEN event_pitch_control ELSE outcome.surface
    IN  /\ pc = "returned" => outcome.status = "ok" /\ outcome.surface # NoSurface
        /\ pc' = "returned"
        /\ call' = Call("calculate_total_space_on_pitch_team",
                        [DefaultArgs EXCEPT !.pitch_control_result = surface,
                                            !.calculating_diff = calculating_diff])
        /\ outcome' = Returned(NoSurface, NoGrid, NoGrid,
                               calculate_total_space_on_pitch_team(surface, calculating_diff))
        /\ copied' = FALSE
        /\ gen_calls' = 0
        /\ warned' = FALSE
        /\ search' = NoSearch
        /\ UNCHANGED <<context, temp_tracking_home, temp_tracking_away>>

\* the caller drops what the last call returned: the edited copies and the
\* surfaces of a call are throwaway values
Release ==
  /\ pc = "returned"
  /\ pc' = "ready"
  /\ call' = Call("none", DefaultArgs)
  /\ outcome' = Returned(NoSurface, NoGrid, NoGrid, Rat(0, 1))
  /\ temp_tracking_home' = tracking_home
  /\ temp_tracking_away' = tracking_away
  /\ copied' = FALSE
  /\ gen_calls' = 0
  /\ warned' = FALSE
  /\ search' = NoSearch
  /\ UNCHANGED context

Next ==
  \/ ReplacedVelocity
  \/ WithoutPlayer
  \/ NewLocation
  \/ Difference
  \/ SpaceCreated
  \/ PlotDifference
  \/ TotalSpace
  \/ Release

Spec == Init /\ [][Next]_vars

\* ------------------------------------------------------------------------
\* The optimizer and the offside boundary, called on a context
\* ------------------------------------------------------------------------

\* who is missing at the event frame: as above, or the whole Away team
OptimizerOffPatterns == OffPatterns \cup {{"4", "5", "6"}}

OptimizerInit ==
  \E ev \in DOMAIN Events, off \in OptimizerOffPatterns, subject \in SubjectArgs, grid \in GridArgs :
    init(ev, off, subject, grid)

\* size_of_grid, (location_trials, velocity_trials) and max_velocity as callers
\* pass them
GridSizes == {0, 3}
TrialBudgets ==
  {<<0, 0>>, <<-1, 0>>, <<-1, 1>>, <<0, -1>>, <<1, -1>>, <<2, -1>>,
   <<1, 0>>, <<2, 0>>, <<0, 1>>, <<0, 2>>, <<1, 1>>}
MaxVelocities == {2}

SearchArgs(size_of_grid, location_trials, velocity_trials, max_velocity) ==
  [size_of_grid |-> size_of_grid, location_trials |-> location_trials,
   velocity_trials |-> velocity_trials, max_velocity |-> max_velocity]

\* the sequences of max_evals points a search over `space` may draw
Points(space, max_evals) ==
  IF max_evals > 0 THEN [1..max_evals -> Draws(space)] ELSE {<<>>}

\* one call of get_optimal_location_on_pitch, step by step: the bounds, the
\* location phase, the velocity phase and the plot, each step skipped once an
\* earlier one has raised
GetOptimalLocation ==
  /\ pc = "ready"
  /\ \E size_of_grid \in GridSizes, budgets \in TrialBudgets, max_velocity \in MaxVelocities :
      \E b \in {search_bounds(size_of_grid, budgets[1], budgets[2])} :
       \E ls \in {IF b.status = "ok" /\ budgets[1] > 0
                  THEN location_space(b, size_of_grid) ELSE NoSpace} :
        \E location_points \in Points(ls, IF b.status = "ok" THEN budgets[1] ELSE 0) :
         \E lo \in {IF b.status = "ok"
                    THEN location_phase(ls, budgets[1], location_points) ELSE Skipped} :
          \E vs \in {IF lo.status = "ok" /\ budgets[2] > 0
                     THEN velocity_space(lo.result, max_velocity) ELSE NoSpace} :
           \E velocity_points \in Points(vs, IF lo.status = "ok" THEN budgets[2] ELSE 0) :
            \E vo \in {IF lo.status = "ok"
                       THEN velocity_phase(vs, lo.result, budgets[2], velocity_points)
                       ELSE Skipped} :
             \E plot \in {IF vo.status = "ok" THEN plot_optimum(vo.result)
                          ELSE Failed("skipped")} :
              \E r \in {get_optimal_location_on_pitch(b, ls, lo, vs, vo, plot)} :
                Finished("get_optimal_location_on_pitch",
                         SearchArgs(size_of_grid, budgets[1], budgets[2], max_velocity),
                         r.effect, r.search)

DetermineOffsidePosition ==
  Done("_determine_offside_position", DefaultArgs,
       Effect(determine_offside_position, tracking_home, tracking_away,
              tracking_home, tracking_away, FALSE, 0, FALSE))

\* the params dictionaries a caller hands to partial_space_creation
ParamsArgs ==
  {Params(dx, dy, v, q) :
     dx \in XChangeDraws, dy \in YChangeDraws, v \in VelocityDraws, q \in AngleDraws}

\* partial_space_creation called on its own, outside a search
PartialSpaceCreation ==
  \E params \in ParamsArgs :
    Done("partial_space_creation", params, partial_space_creation(params))

OptimizerNext ==
  \/ GetOptimalLocation
  \/ PartialSpaceCreation
  \/ DetermineOffsidePosition
  \/ Release

OptimizerSpec == OptimizerInit /\ [][OptimizerNext]_vars

\* ------------------------------------------------------------------------
\* The lifetime of a context: every method, in any order
\* ------------------------------------------------------------------------

\* the contexts built on an event with every player on the pitch
LifetimeInit ==
  \E ev \in DOMAIN Events, subject \in SubjectArgs, grid \in GridArgs :
    init(ev, {}, subject, grid)

LifetimeNext ==
  \/ ReplacedVelocity
  \/ WithoutPlayer
  \/ NewLocation
  \/ Difference
  \/ SpaceCreated
  \/ PlotDifference
  \/ TotalSpace
  \/ GetOptimalLocation
  \/ PartialSpaceCreation
  \/ DetermineOffsidePosition
  \/ Release

LifetimeSpec == LifetimeInit /\ [][LifetimeNext]_vars

\* ------------------------------------------------------------------------
\* Properties
\* ------------------------------------------------------------------------

Movement == "movement"
Presence == "presence"
Location == "location"
ScenarioKinds == {Movement, Presence, Location}

DifferenceOps ==
  {"calculate_pitch_control_difference", "calculate_space_created",
   "plot_pitch_control_difference"}

\* the scenario the last call asked for
Scenario ==
  CASE call.op = "calculate_pitch_control_replaced_velocity" -> Movement
    [] call.op = "calculate_pitch_control_without_player" -> Presence
    [] call.op = "calculate_pitch_control_new_location" -> Location
    [] call.op \in DifferenceOps -> call.args.replace_function
    [] OTHER -> "none"

\* the last call edited a copy of the snapshot as scenario `kind` does
Perturbed(kind) == copied /\ Scenario = kind

IdsOf(team) == IF team = "Home" THEN HomeIds ELSE AwayIds
BaselineOf(team) == IF team = "Home" THEN tracking_home ELSE tracking_away
EditedOf(team) == IF team = "Home" THEN temp_tracking_home ELSE temp_tracking_away

\* the subject is a player of its team whose vx is known at the event frame
SubjectOnPitch ==
  /\ team_player_to_analyze \in Teams
  /\ player_to_analyze.str \in IdsOf(team_player_to_analyze)
  /\ ~isnan(BaselineOf(team_player_to_analyze)[tracking_frame][player_to_analyze.str].vx)

\* the subject's row at the event frame, in the baseline and in the edited copy
BaselineRow == BaselineOf(team_player_to_analyze)[tracking_frame][player_to_analyze.str]
EditedRow == EditedOf(team_player_to_analyze)[tracking_frame][player_to_analyze.str]

\* the row the spec gives the subject under each scenario
ExpectedRow ==
  CASE Scenario = Movement ->
         P(BaselineRow.x, BaselineRow.y,
           call.args.replace_x_velocity, call.args.replace_y_velocity)
    [] Scenario = Presence -> P(NaN, NaN, NaN, NaN)
    [] Scenario = Location ->
         P(BaselineRow.x + call.args.relative_x_change,
           BaselineRow.y + call.args.relative_y_change,
           IF call.args.replace_velocity THEN call.args.replace_x_velocity
                                         ELSE BaselineRow.vx,
           IF call.args.replace_velocity THEN call.args.replace_y_velocity
                                         ELSE BaselineRow.vy)
    [] OTHER -> BaselineRow

\* the baseline table of `team` with nothing but the subject's row replaced
ExpectedTable(team) ==
  IF team = team_player_to_analyze
  THEN [BaselineOf(team) EXCEPT ![tracking_frame][player_to_analyze.str] = ExpectedRow]
  ELSE BaselineOf(team)

\* the surface of the snapshot the scenario describes, on the context's pitch and grid
ExpectedEdited ==
  generate_pitch_control_for_event(event_id, ExpectedTable("Home"), ExpectedTable("Away"),
                                   field_dimens, n_grid_cells_x)

\* the players (team, frame, id) whose values differ between the edited copies
\* and the baseline
Changed ==
  {t \in {<<team, f, p>> : team \in Teams, f \in Frames, p \in HomeIds \cup AwayIds} :
     /\ t[3] \in IdsOf(t[1])
     /\ EditedOf(t[1])[t[2]][t[3]] # BaselineOf(t[1])[t[2]][t[3]]}

SubjectTriple == <<team_player_to_analyze, tracking_frame, player_to_analyze.str>>

\* C1: no call changes the context's own tracking tables: whatever sequence of
\* perturbations, differences and space computations runs, tracking_home and
\* tracking_away keep every value of every player at every frame.
C1_BaselineSnapshotsNeverEdited ==
  [][tracking_home' = tracking_home /\ tracking_away' = tracking_away]_vars

\* a perturbation has edited its copy: the copy differs from the baseline
C1_Witness ==
  /\ copied
  /\ <<temp_tracking_home, temp_tracking_away>> # <<tracking_home, tracking_away>>

\* C2: when calculate_pitch_control_difference returns, each cell of its result
\* is the baseline cell minus the cell of the surface generated from the
\* snapshot its scenario describes (numpy repeats an axis of length 1), and
\* the grids returned are that edited surface's.
C2_DifferenceIsBaselineMinusEdited ==
  (call.op = "calculate_pitch_control_difference" /\ outcome.status = "ok") =>
    /\ Scenario \in ScenarioKinds
    /\ outcome.xgrid = ExpectedEdited.xgrid
    /\ outcome.ygrid = ExpectedEdited.ygrid
    /\ \A c \in DOMAIN outcome.surface.cells :
         outcome.surface.cells[c] =
           cell_of(event_pitch_control, c[1], c[2])
             - cell_of(ExpectedEdited.surface, c[1], c[2])

\* a difference of same-shaped surfaces with a cell the edit won and one it lost
C2_Witness ==
  /\ call.op = "calculate_pitch_control_difference"
  /\ outcome.status = "ok"
  /\ outcome.surface.shape = event_pitch_control.shape
  /\ \E c \in DOMAIN outcome.surface.cells : outcome.surface.cells[c] # 0

\* C3: the movement edit sets the subject's vx and vy at the event frame to the
\* replacement values and keeps its x and y.
C3_MovementSetsVelocityOnly ==
  Perturbed(Movement) =>
    EditedRow = P(BaselineRow.x, BaselineRow.y,
                  call.args.replace_x_velocity, call.args.replace_y_velocity)

\* an Away subject given a velocity that differs from its own in vx and in vy
C3_Witness ==
  /\ Perturbed(Movement)
  /\ team_player_to_analyze = "Away"
  /\ call.args.replace_x_velocity # call.args.replace_y_velocity
  /\ EditedRow.vx # BaselineRow.vx
  /\ EditedRow.vy # BaselineRow.vy

\* C4: the presence edit sets the subject's x, y, vx and vy at the event frame
\* to NaN, so that the generator leaves the subject out.
C4_PresenceSetsAllFourNaN ==
  Perturbed(Presence) =>
    /\ isnan(EditedRow.x) /\ isnan(EditedRow.y)
    /\ isnan(EditedRow.vx) /\ isnan(EditedRow.vy)
    /\ ~InFrame(EditedRow)

\* an Away subject that was on the pitch has been removed
C4_Witness ==
  /\ Perturbed(Presence)
  /\ team_player_to_analyze = "Away"
  /\ InFrame(BaselineRow)
  /\ EditedRow = Absent

\* C5: the location edit adds the changes to the subject's x and y; its
\* velocity is the replacement when replace_velocity is true and its baseline
\* velocity when replace_velocity is false.
C5_LocationShiftsAndKeepsOrReplacesVelocity ==
  Perturbed(Location) =>
    /\ EditedRow.x = BaselineRow.x + call.args.relative_x_change
    /\ EditedRow.y = BaselineRow.y + call.args.relative_y_change
    /\ call.args.replace_velocity =>
         /\ EditedRow.vx = call.args.replace_x_velocity
         /\ EditedRow.vy = call.args.replace_y_velocity
    /\ ~call.args.replace_velocity =>
         /\ EditedRow.vx = BaselineRow.vx
         /\ EditedRow.vy = BaselineRow.vy

\* a move without velocity replacement, called with a replacement velocity
\* that is not the subject's own
C5_Witness ==
  /\ Perturbed(Location)
  /\ ~call.args.replace_velocity
  /\ call.args.relative_x_change # 0
  /\ call.args.relative_y_change # 0
  /\ call.args.replace_x_velocity # BaselineRow.vx
  /\ call.args.replace_y_velocity # BaselineRow.vy

\* C6 as stated: every perturbation changes the values of exactly one player,
\* the subject at the event frame.
C6_ExactlyOnePlayerChanges ==
  copied => Changed = {SubjectTriple}

\* C6: a perturbation changes the values of no player but the subject at the
\* event frame; every other player of both teams, and every other frame, has
\* the baseline's values in the edited copies.
C6_OnlyTheSubjectChanges ==
  copied => Changed \subseteq {SubjectTriple}

\* a perturbation that did change the subject
C6_Witness ==
  /\ copied
  /\ Changed = {SubjectTriple}

\* C7 as stated: with a subject that is not on the pitch at the event frame,
\* construction and every call fail with a validation error before the
\* surface generator is called.
C7_OffPitchSubjectAlwaysRejected ==
  (~SubjectOnPitch /\ call.op # "none") =>
    /\ outcome.status \in ValidationErrors
    /\ gen_calls = 0

\* C8: a difference, space-created or plot call with a replace_function other
\* than the three scenarios raises the invalid-scenario error, makes no edited
\* copy and does not call the generator.
C8_UnknownScenarioRejected ==
  (call.op \in DifferenceOps /\ call.args.replace_function \notin ScenarioKinds) =>
    /\ outcome.status = ErrReplaceFunction
    /\ ~copied
    /\ gen_calls = 0

\* an unknown scenario rejected for a subject every known scenario accepts
C8_Witness ==
  /\ call.op = "calculate_space_created"
  /\ call.args.replace_function \notin ScenarioKinds
  /\ SubjectOnPitch
  /\ outcome.status = ErrReplaceFunction

\* fieldLength * fieldWidth * sum(cells) / (len(xgrid) * len(ygrid))
ScaledSum(surface) ==
  Rat(field_dimens[1] * field_dimens[2] * sum(surface), Len_(xgrid) * Len_(ygrid))

FieldArea == Rat(field_dimens[1] * field_dimens[2], 1)

\* C9: calculate_total_space_on_pitch_team returns s = area * sum / cellCount
\* when the subject's team is in possession or calculating_diff is true, and
\* area - s when neither holds.
C9_AggregateComplementOnlyForDefendingRawSurface ==
  call.op = "calculate_total_space_on_pitch_team" =>
    LET s == ScaledSum(call.args.pitch_control_result)
    IN  IF team_player_to_analyze = team_in_possession \/ call.args.calculating_diff
        THEN RatEq(outcome.value, s)
        ELSE RatEq(outcome.value, RatSub(FieldArea, s))

\* the complement taken for a defending subject, and different from s
C9_Witness ==
  /\ call.op = "calculate_total_space_on_pitch_team"
  /\ team_player_to_analyze # team_in_possession
  /\ ~call.args.calculating_diff
  /\ ~RatEq(outcome.value, ScaledSum(call.args.pitch_control_result))
  /\ RatEq(outcome.value, RatSub(FieldArea, ScaledSum(call.args.pitch_control_result)))

\* the delta surface of the last call's edited copies
DeltaOfEdit ==
  subtract(event_pitch_control,
           generate_pitch_control_for_event(event_id, temp_tracking_home,
                                            temp_tracking_away, field_dimens,
                                            n_grid_cells_x).surface)

\* C10: calculate_space_created returns area * sum(delta) / cellCount, times +1
\* for a subject of the team in possession and times -1 otherwise, with no
\* complement.
C10_SpaceCreatedIsSignedAggregate ==
  (call.op = "calculate_space_created" /\ outcome.status = "ok") =>
    RatEq(outcome.value,
          RatTimes(ScaledSum(DeltaOfEdit),
                   IF team_player_to_analyze = team_in_possession THEN 1 ELSE -1))

\* a defending subject whose edit moved some space
C10_Witness ==
  /\ call.op = "calculate_space_created"
  /\ outcome.status = "ok"
  /\ team_player_to_analyze # team_in_possession
  /\ outcome.value.num # 0

\* the surface generated from the last call's edited copies, on the context's
\* pitch and grid
EditedOfCall ==
  generate_pitch_control_for_event(event_id, temp_tracking_home, temp_tracking_away,
                                   field_dimens, n_grid_cells_x).surface

\* C11: calculate_space_created returns the subject's team's total space on the
\* baseline surface minus its total space on the edited surface, both computed
\* by calculate_total_space_on_pitch_team with calculating_diff false, for
\* every scenario and for a subject in possession or not.
C11_SpaceCreatedIsBaselineSpaceMinusEditedSpace ==
  (call.op = "calculate_space_created" /\ outcome.status = "ok") =>
    RatEq(outcome.value,
          RatSub(calculate_total_space_on_pitch_team(event_pitch_control, FALSE),
                 calculate_total_space_on_pitch_team(EditedOfCall, FALSE)))

\* C20: a movement difference that replaces the subject's velocity with the
\* velocity the subject has in the baseline returns a delta surface, and every
\* cell of it is zero, whatever pitch and grid the context was built with.
C20_OwnVelocityGivesZeroDelta ==
  ( /\ call.op = "calculate_pitch_control_difference"
    /\ call.args.replace_function = Movement
    /\ SubjectOnPitch
    /\ player_to_analyze.type \in {"str", "int"}
    /\ call.args.replace_x_velocity = BaselineRow.vx
    /\ call.args.replace_y_velocity = BaselineRow.vy ) =>
    /\ outcome.status = "ok"
    /\ \A c \in DOMAIN outcome.surface.cells : outcome.surface.cells[c] = 0

\* the team the subject plays against, and its players on the pitch at the
\* event frame
OpposingTeam == IF team_player_to_analyze = "Home" THEN "Away" ELSE "Home"
OpposingOnPitch ==
  {p \in IdsOf(OpposingTeam) :
     ~isnan(BaselineOf(OpposingTeam)[tracking_frame][p].vx)}
OpposingX(p) == BaselineOf(OpposingTeam)[tracking_frame][p].x

\* v is the x of an opposing player on the pitch with at most one such player
\* strictly below it and at least two at or below it
IsSecondSmallest(v) ==
  /\ \E p \in OpposingOnPitch : OpposingX(p) = v
  /\ Cardinality({p \in OpposingOnPitch : OpposingX(p) < v}) <= 1
  /\ Cardinality({p \in OpposingOnPitch : OpposingX(p) <= v}) >= 2
IsSecondLargest(v) ==
  /\ \E p \in OpposingOnPitch : OpposingX(p) = v
  /\ Cardinality({p \in OpposingOnPitch : OpposingX(p) > v}) <= 1
  /\ Cardinality({p \in OpposingOnPitch : OpposingX(p) >= v}) >= 2
IsOffsideBoundary(v) ==
  IF team_player_to_analyze = "Home" THEN IsSecondSmallest(v) ELSE IsSecondLargest(v)

Optimizer == "get_optimal_location_on_pitch"

\* C12: with two or more opposing players on the pitch at the event frame, the
\* offside boundary is the second smallest of their x for a Home subject and
\* the second largest for an Away subject, alone and inside the optimizer; for
\* the x-coordinates -10, -3, 0, 4, 9 in any order these are -3 and 4.
C12_OffsideIsSecondExtremeOfOpposingX ==
  /\ (call.op = "_determine_offside_position" /\ team_player_to_analyze \in Teams
        /\ Cardinality(OpposingOnPitch) >= 2) =>
       /\ outcome.status = "ok"
       /\ outcome.value.den = 1
       /\ IsOffsideBoundary(outcome.value.num)
  /\ (call.op = Optimizer /\ team_player_to_analyze \in Teams
        /\ search.bounds.offside_called /\ Cardinality(OpposingOnPitch) >= 2) =>
       /\ search.bounds.offside_position.den = 1
       /\ IsOffsideBoundary(search.bounds.offside_position.num)
  /\ second_extreme(<<-10, -3, 0, 4, 9>>, FALSE) = -3
  /\ second_extreme(<<-10, -3, 0, 4, 9>>, TRUE) = 4
  /\ second_extreme(<<4, 9, -10, 0, -3>>, FALSE) = -3
  /\ second_extreme(<<4, 9, -10, 0, -3>>, TRUE) = 4

\* a boundary strictly between the x of two other opposing players
C12_Witness ==
  /\ call.op = "_determine_offside_position"
  /\ outcome.status = "ok"
  /\ team_player_to_analyze = "Home"
  /\ \E p, q \in OpposingOnPitch :
       OpposingX(p) < outcome.value.num /\ outcome.value.num < OpposingX(q)

\* C13: with fewer than two opposing players on the pitch at the event frame
\* the offside computation raises an error, and a call of the optimizer fails
\* without starting a search, evaluating a trial or generating a surface.
C13_TooFewDefendersIsAnError ==
  (team_player_to_analyze \in Teams /\ Cardinality(OpposingOnPitch) < 2) =>
    /\ call.op = "_determine_offside_position" => outcome.status = ErrIndex
    /\ call.op = Optimizer =>
         /\ outcome.status # "ok"
         /\ ~search.location.started /\ ~search.velocity.started
         /\ search.location.trials = <<>> /\ search.velocity.trials = <<>>
         /\ gen_calls = 0

\* the optimizer, asked for a location search, stopped by the offside
\* computation with a single opposing player on the pitch
C13_Witness ==
  /\ call.op = Optimizer
  /\ call.args.location_trials > 0
  /\ call.args.size_of_grid > 0
  /\ Cardinality(OpposingOnPitch) = 1
  /\ outcome.status = ErrIndex

\* C14: with both budgets 0 the optimizer fails with the no-optimization error
\* before it computes the offside boundary, runs a trial or generates a
\* surface; with one budget 0 and the other positive it does not raise it.
C14_BothBudgetsZeroRejectedFirst ==
  call.op = Optimizer =>
    /\ (call.args.location_trials = 0 /\ call.args.velocity_trials = 0) =>
         /\ outcome.status = ErrNoOptimization
         /\ ~search.bounds.offside_called
         /\ search.location.trials = <<>> /\ search.velocity.trials = <<>>
         /\ gen_calls = 0 /\ ~copied
    /\ (\/ call.args.location_trials = 0 /\ call.args.velocity_trials > 0
        \/ call.args.location_trials > 0 /\ call.args.velocity_trials = 0) =>
         outcome.status # ErrNoOptimization

\* both budgets 0 in a call that nothing else would stop
C14_Witness ==
  /\ call.op = Optimizer
  /\ call.args.location_trials = 0 /\ call.args.velocity_trials = 0
  /\ call.args.size_of_grid > 0
  /\ SubjectOnPitch
  /\ Cardinality(OpposingOnPitch) >= 2
  /\ outcome.status = ErrNoOptimization

\* the context was built with the generator's own pitch and grid
DefaultContext ==
  /\ field_dimens = DefaultFieldDimen
  /\ n_grid_cells_x = DefaultGridCellsX

\* a call of the optimizer that neither the grid size, nor the subject, nor
\* the offside computation stops
SearchableCall ==
  /\ call.op = Optimizer
  /\ call.args.size_of_grid > 0
  /\ SubjectOnPitch
  /\ Cardinality(OpposingOnPitch) >= 2

\* C15: a call of the optimizer with a negative location_trials or a negative
\* velocity_trials fails with the invalid-budget error of that budget, with no
\* trial evaluated and no surface generated before the failure.
C15_NegativeBudgetRejectedEagerly ==
  ( /\ SearchableCall
    /\ DefaultContext
    /\ call.args.location_trials < 0 \/ call.args.velocity_trials < 0 ) =>
    /\ outcome.status \in {ErrLocationTrials, ErrVelocityTrials}
    /\ search.location.trials = <<>> /\ search.velocity.trials = <<>>
    /\ gen_calls = 0

Larger(a, b) == IF a < b THEN b ELSE a
Smaller(a, b) == IF b < a THEN b ELSE a

\* the offside boundary, and twice the least and the greatest x open to the
\* subject: the pitch from -length/2 to length/2, cut at the offside boundary on
\* the lower side for a Home subject and on the upper side for an Away subject
OffsideX == CHOOSE v \in -PitchLength..PitchLength : IsOffsideBoundary(v)
TwiceXMin ==
  IF team_player_to_analyze = "Home"
  THEN Larger(-field_dimens[1], 2 * OffsideX) ELSE -field_dimens[1]
TwiceXMax ==
  IF team_player_to_analyze = "Home"
  THEN field_dimens[1] ELSE Smaller(field_dimens[1], 2 * OffsideX)

\* the interval [low, high] of a parameter of a search space is [a/2, b/2]
IsInterval(u, a, b) == RatEq(u.low, Rat(a, 2)) /\ RatEq(u.high, Rat(b, 2))

\* C16: in the location phase of a subject on the pitch dx is searched in
\* [max(xmin - px, -size/2), min(xmax - px, size/2)] and dy in [max(-width/2 - py, -size/2),
\* min(width/2 - py, size/2)], with (px, py) the subject's position and
\* [xmin, xmax] the pitch cut by the offside boundary; for size 20, px = 0,
\* half-length 53 and the boundary at 30 the dx interval is [-10, 10], and with
\* the boundary at 5 it is [-10, 5].
C16_LocationIntervalsAreClippedWindow ==
  /\ (call.op = Optimizer /\ search.location.started /\ SubjectOnPitch) =>
       /\ IsInterval(search.location.space.x_change,
                     Larger(TwiceXMin - 2 * BaselineRow.x, -call.args.size_of_grid),
                     Smaller(TwiceXMax - 2 * BaselineRow.x, call.args.size_of_grid))
       /\ IsInterval(search.location.space.y_change,
                     Larger(-field_dimens[2] - 2 * BaselineRow.y, -call.args.size_of_grid),
                     Smaller(field_dimens[2] - 2 * BaselineRow.y, call.args.size_of_grid))
  /\ IsInterval(location_space(Bounds("ok", TRUE, Rat(30, 1), Rat(0, 1), Rat(0, 1),
                                      Rat(-53, 1), Rat(30, 1), Rat(-34, 1), Rat(34, 1)),
                               20).x_change, -20, 20)
  /\ IsInterval(location_space(Bounds("ok", TRUE, Rat(5, 1), Rat(0, 1), Rat(0, 1),
                                      Rat(-53, 1), Rat(5, 1), Rat(-34, 1), Rat(34, 1)),
                               20).x_change, -20, 10)

\* a location search whose dx interval is cut by the offside boundary and not
\* by the grid size, and is not empty
C16_Witness ==
  /\ call.op = Optimizer
  /\ search.location.started
  /\ search.location.trials # <<>>
  /\ \/ /\ team_player_to_analyze = "Home"
        /\ RatLess(Rat(-call.args.size_of_grid, 2), search.location.space.x_change.low)
     \/ /\ team_player_to_analyze = "Away"
        /\ RatLess(search.location.space.x_change.high, Rat(call.args.size_of_grid, 2))
  /\ RatLess(search.location.space.x_change.low, search.location.space.x_change.high)

\* C17: whenever the optimizer starts a location search, the dx interval and
\* the dy interval it hands to the search both have their lower bound below
\* their upper bound, also for a subject beyond the offside boundary.
C17_LocationIntervalsAreNonEmpty ==
  (call.op = Optimizer /\ search.location.started /\ SubjectOnPitch) =>
    /\ RatLess(search.location.space.x_change.low, search.location.space.x_change.high)
    /\ RatLess(search.location.space.y_change.low, search.location.space.y_change.high)

\* C18: in the velocity phase the speed is searched in [0, max_velocity] and
\* the heading in [0, 2*pi): no candidate has a negative speed, a speed above
\* max_velocity or a heading of a full turn or more.
C18_SpeedWithinZeroAndMaxVelocity ==
  (call.op = Optimizer /\ search.velocity.started) =>
    /\ search.velocity.space.velocity.low = SurdOf(0)
    /\ search.velocity.space.velocity.high = SurdOf(call.args.max_velocity)
    /\ search.velocity.space.angle.low = Angle(0, Rat(0, 1))
    /\ search.velocity.space.angle.high = Angle(4, Rat(0, 1))
    /\ \A i \in DOMAIN search.velocity.trials :
         /\ search.velocity.trials[i].params.velocity \in 0..call.args.max_velocity
         /\ search.velocity.trials[i].params.angle \in 0..3

\* C19: with location_trials > 0 and velocity_trials = 0 the optimizer skips
\* the velocity phase and returns without error, having handed the location
\* phase's best (dx, dy) and the velocity (0, 0) to the plot.
C19_NoVelocityBudgetPlotsLocationOptimum ==
  ( /\ SearchableCall
    /\ DefaultContext
    /\ call.args.location_trials > 0 /\ call.args.velocity_trials = 0 ) =>
    /\ outcome.status = "ok"
    /\ ~search.velocity.started
    /\ search.plotted
    /\ search.plot_args.relative_x_change = search.location.result.x_change
    /\ search.plot_args.relative_y_change = search.location.result.y_change
    /\ search.plot_args.replace_x_velocity = 0
    /\ search.plot_args.replace_y_velocity = 0

\* the last call aggregated the difference of the baseline surface and the
\* surface of the edited copies the caller still holds, both of one shape
AggregatedDifference ==
  /\ call.op = "calculate_total_space_on_pitch_team"
  /\ EditedOfCall.shape = event_pitch_control.shape
  /\ call.args.pitch_control_result = subtract(event_pitch_control, EditedOfCall)

\* aggregate(A) - aggregate(B) for the baseline A and the edited surface B,
\* both aggregated as the last call aggregated
DifferenceOfAggregates ==
  RatSub(calculate_total_space_on_pitch_team(event_pitch_control,
                                             call.args.calculating_diff),
         calculate_total_space_on_pitch_team(EditedOfCall, call.args.calculating_diff))

PitchArea == Rat(field_dimens[1] * field_dimens[2], 1)

\* C21 as stated: aggregate(A - B) = aggregate(A) - aggregate(B) for two
\* surfaces of one shape, whoever is in possession and whatever calculating_diff.
C21_AggregatorIsLinear ==
  AggregatedDifference => RatEq(outcome.value, DifferenceOfAggregates)

\* C21: aggregate(A - B) = aggregate(A) - aggregate(B) when the subject's team
\* is in possession or calculating_diff is set; for a subject whose team is not
\* in possession and calculating_diff false, aggregate(A - B) is the pitch area
\* plus aggregate(A) - aggregate(B).
C21_AggregatorIsLinearUnlessComplemented ==
  AggregatedDifference =>
    IF team_player_to_analyze = team_in_possession \/ call.args.calculating_diff
    THEN RatEq(outcome.value, DifferenceOfAggregates)
    ELSE RatEq(RatSub(outcome.value, PitchArea), DifferenceOfAggregates)

\* a difference that is not zero, aggregated with calculating_diff for a
\* subject whose team is not in possession
C21_Witness ==
  /\ AggregatedDifference
  /\ call.args.calculating_diff
  /\ team_player_to_analyze \in Teams
  /\ team_player_to_analyze # team_in_possession
  /\ outcome.value.num # 0

\* the last call aggregated, for the subject's team, a surface the context
\* produces: the baseline, or the surface of the edited copies the caller holds
AggregatedOwnSurface ==
  /\ call.op = "calculate_total_space_on_pitch_team"
  /\ ~call.args.calculating_diff
  /\ call.args.pitch_control_result \in {event_pitch_control, EditedOfCall}

\* C22: the space aggregated from a surface of the context, baseline or edited,
\* lies between 0 and the pitch area field_dimens[0] * field_dimens[1],
\* whatever pitch and grid the context was built with.
C22_AggregateWithinPitchArea ==
  AggregatedOwnSurface =>
    /\ RatLeq(Rat(0, 1), outcome.value)
    /\ RatLeq(outcome.value, PitchArea)

\* the velocity arguments of the last call are both left at 0
ZeroVelocityArgs ==
  call.args.replace_x_velocity = 0 /\ call.args.replace_y_velocity = 0

\* C23 as stated: a movement call whose replacement velocity is left at its
\* all-zero default issues a warning, and returns its surface.
C23_MovementWarnsOnZeroVelocity ==
  ( /\ call.op = "calculate_pitch_control_replaced_velocity"
    /\ ZeroVelocityArgs
    /\ validate_inputs = "ok" ) =>
    /\ warned
    /\ outcome.status = "ok"

\* C23: the warning is issued by the location scenario, exactly when the
\* subject is valid, replace_velocity is true and both replacement velocities
\* are 0, and calculate_pitch_control_new_location still returns its surface;
\* the movement and presence scenarios never warn.
C23_LocationWarnsOnStationaryReplacement ==
  /\ call.op = "calculate_pitch_control_new_location" =>
       /\ warned <=> ( /\ validate_inputs = "ok"
                       /\ call.args.replace_velocity
                       /\ ZeroVelocityArgs )
       /\ warned => outcome.status = "ok" /\ outcome.surface = EditedOfCall
  /\ call.op \in DifferenceOps =>
       ( warned <=> ( /\ Scenario = Location
                      /\ validate_inputs = "ok"
                      /\ call.args.replace_velocity
                      /\ ZeroVelocityArgs ) )
  /\ call.op \in {"calculate_pitch_control_replaced_velocity",
                  "calculate_pitch_control_without_player"} => ~warned

\* a location call that warned and returned its surface
C23_Witness ==
  /\ call.op = "calculate_pitch_control_new_location"
  /\ warned
  /\ outcome.status = "ok"
  /\ outcome.surface # NoSurface

\* the arguments the chosen scenario has no use for
IrrelevantArgs ==
  CASE Scenario = Presence ->
         {"replace_velocity", "replace_x_velocity", "replace_y_velocity",
          "relative_x_change", "relative_y_change"}
    [] Scenario = Location /\ ~call.args.replace_velocity ->
         {"replace_x_velocity", "replace_y_velocity"}
    [] Scenario = Movement ->
         {"relative_x_change", "relative_y_change", "replace_velocity"}
    [] OTHER -> {}

\* the values a caller may pass for an argument
ValuesOf(k) ==
  CASE k = "replace_velocity" -> BOOLEAN
    [] k = "replace_x_velocity" -> XVelocities
    [] k = "replace_y_velocity" -> YVelocities
    [] k = "relative_x_change" -> XChanges
    [] k = "relative_y_change" -> YChanges

\* C24: a call of calculate_pitch_control_difference that differs from the last
\* one only in an argument irrelevant to its scenario (for presence the velocity
\* and location arguments, for location without replace_velocity the
\* replacement velocity, for movement the relative changes and replace_velocity)
\* returns the same delta, grids or error.
C24_DifferenceIgnoresIrrelevantArguments ==
  call.op = "calculate_pitch_control_difference" =>
    \A k \in IrrelevantArgs : \A v \in ValuesOf(k) :
      calculate_pitch_control_difference([call.args EXCEPT ![k] = v]).outcome = outcome

\* a presence difference that is not zero, called with every irrelevant
\* argument away from its default
C24_Witness ==
  /\ call.op = "calculate_pitch_control_difference"
  /\ Scenario = Presence
  /\ call.args.replace_velocity
  /\ call.args.replace_x_velocity # 0 /\ call.args.replace_y_velocity # 0
  /\ call.args.relative_x_change # 0 /\ call.args.relative_y_change # 0
  /\ outcome.status = "ok"
  /\ \E c \in DOMAIN outcome.surface.cells : outcome.surface.cells[c] # 0

\* what the constructor generates: the surface and the grids of the context's
\* own tables, on the generator's default pitch and grid
BaselineOfConstruction ==
  generate_pitch_control_for_event(event_id, tracking_home, tracking_away,
                                   DefaultFieldDimen, DefaultGridCellsX)

\* C25: construction generates one surface, the baseline, with its grids; no
\* call of any method (perturbation, difference, space created, aggregation,
\* plot, optimizer) changes the baseline or its grids, and every generator
\* call a method makes is made on edited copies.
C25_BaselineGeneratedOnceAndKept ==
  [][ /\ call.op = "__init__" =>
           /\ gen_calls = 1
           /\ [surface |-> event_pitch_control, xgrid |-> xgrid, ygrid |-> ygrid]
                = BaselineOfConstruction
      /\ event_pitch_control' = event_pitch_control
      /\ xgrid' = xgrid
      /\ ygrid' = ygrid
      /\ gen_calls' > 0 => copied' ]_vars

\* an optimizer call that generated two or more surfaces and returned, the
\* baseline still the one of construction
C25_Witness ==
  /\ call.op = Optimizer
  /\ outcome.status = "ok"
  /\ gen_calls >= 2
  /\ search.velocity.trials # <<>>
  /\ event_pitch_control = BaselineOfConstruction.surface

\* a call of the optimizer with budgets the method accepts
BudgetedCall ==
  /\ SearchableCall
  /\ call.args.location_trials >= 0 /\ call.args.velocity_trials >= 0
  /\ call.args.location_trials + call.args.velocity_trials > 0

\* C26: an optimizer call with non-negative budgets, not both 0, that no
\* check on its inputs stops, ends after exactly location_trials evaluations of
\* the objective in the location phase and exactly velocity_trials in the
\* velocity phase; each evaluation generates one surface (the plot of the
\* optimum one more), and the velocity phase starts from the finished location
\* phase.
C26_EvaluationsEqualBudgets ==
  BudgetedCall =>
    /\ pc = "returned"
    /\ Len(search.location.trials) = call.args.location_trials
    /\ Len(search.velocity.trials) = call.args.velocity_trials
    /\ search.location.started <=> call.args.location_trials > 0
    /\ search.velocity.started <=> call.args.velocity_trials > 0
    /\ gen_calls = call.args.location_trials + call.args.velocity_trials
                     + (IF search.plotted THEN 1 ELSE 0)
    /\ search.velocity.started =>
         {"x_change", "y_change"} \subseteq DOMAIN search.location.result

\* one evaluation in each phase and the plot, in a call that returned
C26_Witness ==
  /\ BudgetedCall
  /\ outcome.status = "ok"
  /\ Len(search.location.trials) = 1
  /\ Len(search.velocity.trials) = 1
  /\ gen_calls = 3

\* the trials of the last optimizer call, location phase first
AllTrials == search.location.trials \o search.velocity.trials

\* the candidate of a trial as the arguments of the location scenario, its
\* velocity replaced by (velocity * sin(angle), velocity * cos(angle))
CandidateArgs(t) ==
  [DefaultArgs EXCEPT
     !.replace_function = "location",
     !.relative_x_change = t.params.x_change,
     !.relative_y_change = t.params.y_change,
     !.replace_velocity = TRUE,
     !.replace_x_velocity = t.params.velocity * sin(t.params.angle),
     !.replace_y_velocity = t.params.velocity * cos(t.params.angle)]

\* the surface generated for the candidate of a trial
CandidateSurface(t) ==
  calculate_pitch_control_new_location(
    CandidateArgs(t).relative_x_change, CandidateArgs(t).relative_y_change, TRUE,
    CandidateArgs(t).replace_x_velocity, CandidateArgs(t).replace_y_velocity).outcome.surface

\* how much of the candidate's surface the subject's team controls: the sum of
\* the cells for the team in possession, the rest of the cells for the other
TeamCells(t) ==
  CHOOSE n \in {IF team_player_to_analyze = team_in_possession THEN sum(surface)
                ELSE Cardinality(DOMAIN surface.cells) - sum(surface) :
                surface \in {CandidateSurface(t)}} : TRUE

\* TeamCells of each of the trials, in turn
RECURSIVE TeamCellsOfEach(_)
TeamCellsOfEach(trials) ==
  IF trials = <<>> THEN <<>>
  ELSE <<TeamCells(Head(trials))>> \o TeamCellsOfEach(Tail(trials))

\* calculate_space_created of the candidate of a trial
SpaceCreatedOf(t) == calculate_space_created(CandidateArgs(t)).outcome

\* C27 as stated: the objective of every trial is the negative of
\* calculate_space_created of its candidate (location scenario, velocity
\* replaced).
C27_ObjectiveIsNegativeSpaceCreated ==
  (call.op = Optimizer /\ DefaultContext) =>
    \A i \in DOMAIN AllTrials : \A created \in {SpaceCreatedOf(AllTrials[i])} :
      created.status = "ok" => RatEq(AllTrials[i].loss, RatNeg(created.value))

\* C27: the objective of every trial, in both phases, is the negative of what
\* calculate_total_space_on_pitch_team, with calculating_diff false, answers for
\* the candidate's surface; of two candidates the one with the lower objective
\* is the one after which the subject's team controls more of the surface, in
\* possession or not.
C27_ObjectiveIsNegativeTeamSpace ==
  call.op = Optimizer =>
    /\ \A cells \in {TeamCellsOfEach(AllTrials)} : \A i, j \in DOMAIN AllTrials :
         RatLess(AllTrials[i].loss, AllTrials[j].loss) <=> cells[i] > cells[j]
    /\ \A i \in DOMAIN AllTrials : \A surface \in {CandidateSurface(AllTrials[i])} :
         RatEq(AllTrials[i].loss,
               RatNeg(calculate_total_space_on_pitch_team(surface, FALSE)))

\* two candidates with different objectives, the subject's team not in
\* possession
C27_Witness ==
  /\ call.op = Optimizer
  /\ team_player_to_analyze # team_in_possession
  /\ \E i, j \in DOMAIN AllTrials :
       /\ RatLess(AllTrials[i].loss, AllTrials[j].loss)
       /\ TeamCells(AllTrials[i]) > TeamCells(AllTrials[j])
       /\ AllTrials[i].params.velocity # 0

\* the trials of a phase with the least objective
BestOf(trials) ==
  {i \in DOMAIN trials : \A j \in DOMAIN trials : ~RatLess(trials[j].loss, trials[i].loss)}

\* the (dx, dy) a location phase can hand over: its best candidate's, or (0, 0)
\* when it ran no trial
Handoffs ==
  IF call.args.location_trials = 0 THEN {<<0, 0>>}
  ELSE {<<search.location.trials[i].params.x_change,
          search.location.trials[i].params.y_change>> :
          i \in BestOf(search.location.trials)}

\* v lies within 1/100 of c
Within001(v, c) == 100 * c - 1 <= 100 * v /\ 100 * v <= 100 * c + 1

\* the interval u is [c - 1/100, c + 1/100]
IsWindow(u, c) == RatEq(u.low, Rat(100 * c - 1, 100)) /\ RatEq(u.high, Rat(100 * c + 1, 100))

\* C28: the velocity phase searches dx and dy within 0.01 of the best (dx, dy)
\* of the location phase, or of (0, 0) when location_trials = 0, and so lies
\* every one of its candidates; nothing else of the location phase enters its
\* space; with velocity_trials > 0 the (dx, dy) handed to the plot are those of
\* the velocity phase's best candidate.
C28_VelocityPhasePinnedToLocationBest ==
  (call.op = Optimizer /\ search.velocity.started) =>
    /\ \E h \in Handoffs :
         /\ IsWindow(search.velocity.space.x_change, h[1])
         /\ IsWindow(search.velocity.space.y_change, h[2])
         /\ \A i \in DOMAIN search.velocity.trials :
              /\ Within001(search.velocity.trials[i].params.x_change, h[1])
              /\ Within001(search.velocity.trials[i].params.y_change, h[2])
    /\ search.velocity.space.velocity =
         hp_uniform("velocity",
                    Surd(-1, Rat(call.args.max_velocity * call.args.max_velocity, 2)),
                    Surd(1, Rat(call.args.max_velocity * call.args.max_velocity, 2)))
    /\ search.velocity.space.angle =
         hp_uniform("angle", Angle(0, Rat(0, 1)), Angle(4, Rat(0, 1)))
    /\ search.plotted =>
         \E i \in BestOf(search.velocity.trials) :
           /\ search.plot_args.relative_x_change
                = search.velocity.trials[i].params.x_change
           /\ search.plot_args.relative_y_change
                = search.velocity.trials[i].params.y_change

\* a velocity phase around a location optimum away from the subject's own
\* location, its best candidate plotted
C28_Witness ==
  /\ call.op = Optimizer
  /\ call.args.location_trials > 0
  /\ search.velocity.trials # <<>>
  /\ search.plotted
  /\ search.location.result.x_change # 0
  /\ search.plot_args.relative_x_change = search.location.result.x_change

PerturbationOps ==
  {"calculate_pitch_control_replaced_velocity",
   "calculate_pitch_control_without_player",
   "calculate_pitch_control_new_location"}

\* C29: the baseline surface is generated on the pitch and the grid given at
\* construction, as every edited surface is: an edited surface has the
\* baseline's shape and grids, and as many cells as the aggregator divides by.
C29_BaselineAndEditedShareGrid ==
  /\ call.op = "__init__" =>
       event_pitch_control
         = generate_pitch_control_for_event(event_id, tracking_home, tracking_away,
                                            field_dimens, n_grid_cells_x).surface
  /\ (call.op \in PerturbationOps /\ outcome.status = "ok") =>
       /\ outcome.surface.shape = event_pitch_control.shape
       /\ outcome.xgrid = xgrid
       /\ outcome.ygrid = ygrid
       /\ Cardinality(DOMAIN outcome.surface.cells) = Len_(xgrid) * Len_(ygrid)
============================================================================
